---- MODULE Spec2Model ----
(***************************************************************************)
(* Model of impactoracle's payment gate (src/middleware/x402.ts with       *)
(* src/services/payment.ts) and of its resilient client                    *)
(* (src/lib/resilience.ts: cockatiel retry wrapped around a consecutive-   *)
(* failure circuit breaker).                                               *)
(***************************************************************************)
EXTENDS Integers, Sequences, FiniteSets, TLC

VARIABLES
    \* ---- payment gate ----
    gateCfg,      \* createX402Middleware's config: settleBeforeResponse, hooks
    nowSec,       \* wall clock of the gate, whole seconds
    req,          \* per request: position in the middleware and its locals
    \* ---- resilient client ----
    resCfg,       \* createResilientClient's config
    now,          \* wall clock of the client (Date.now()), in ticks
    bstate,       \* breaker.state
    openedAt,     \* time of the last transition to Open
    count,        \* ConsecutiveBreaker's counter
    previousState,\* resilience.ts: previousState
    events,       \* sequence of events handed to onStateChange
    emitted,      \* number of emissions of the breaker's state-change emitter
    tester,       \* the caller whose probe the half-open breaker awaits
    call,         \* per caller: position inside execute and its locals
    fnCalls,      \* total number of invocations of wrapped functions
    consec,       \* history: failed invocations since the last successful one
    started,      \* history: number of execute calls started
    \* ---- health probe of the inference client ----
    health,       \* position inside healthCheck and what it gave
    \* ---- request signing ----
    signing,      \* a payload, its signature, and the verification of a candidate
    \* ---- credential codec ----
    codec,        \* a header value on the wire and what decoding it gave
    \* ---- rate limiter ----
    limiter,      \* the store's entries, the clock, and history of the requests
    \* ---- configuration loader ----
    env,          \* process.env, as far as loadConfig reads it
    cachedConfig, \* errors.ts: the module variable _config
    loaded,       \* history: outcome of the last loadConfig call
    \* ---- amount arithmetic of the payment service ----
    amount,       \* a configured price, a credential's value, and the verdict
    \* ---- assembled application ----
    app           \* per request to /v1/verify: position in the route's chain

gateVars == <<gateCfg, nowSec, req>>
resVars  == <<resCfg, now, bstate, openedAt, count, previousState, events,
              emitted, tester, call, fnCalls, consec, started>>
moreVars == <<amount, app>>
auxVars  == <<health, signing, codec, limiter, env, cachedConfig, loaded, moreVars>>
vars     == <<gateVars, resVars, auxVars>>

Unset     == "unset"        \* a context variable or field never assigned
Undefined == "undefined"    \* JavaScript's undefined as a value
Null      == "null"

\* ---- the parts that are not running in a given specification ----
Off == [pc |-> "off"]
AuxIdle ==
    /\ health = Off /\ signing = Off /\ codec = Off /\ limiter = Off
    /\ env = Off /\ cachedConfig = Off /\ loaded = Off
    /\ amount = Off /\ app = Off

(***************************************************************************)
(*                           PAYMENT GATE                                  *)
(***************************************************************************)

\* ---- bounds ----
MaxSec  == 2

\* two requests in flight at once
Reqs == {"r1", "r2"}

\* ---- static configuration of the payment service ----
PayTo        == "0xaaaa"
PriceCents   == 5
UnitsPerCent == 10000
Network      == "base-sepolia"
DefaultResource == "https://api.impactoracle.xyz/v1/verify"

\* String.prototype.toLowerCase over the modelled addresses
toLowerCase(a) == IF a = "0xAAAA" THEN "0xaaaa" ELSE a

\* the URL of request r (c.req.url)
ReqUrl(r) == "https://api.test.com/v1/verify?id=" \o r

centsToUSDCUnits(cents) == cents * UnitsPerCent

requiredAmountUnits == centsToUSDCUnits(PriceCents)

buildPaymentRequirements(resourceUrl) ==
    [x402Version |-> 1, schemes |-> <<"exact">>, network |-> Network,
     payTo |-> PayTo, maxAmountRequired |-> requiredAmountUnits,
     resource |-> resourceUrl]

\* `${x}` of a value that may be undefined
Str(x) == IF x = Undefined THEN "undefined" ELSE x

\* requirements spread with the error field, when the error is truthy
build402Response(resourceUrl, error) ==
    [requirements |-> buildPaymentRequirements(resourceUrl),
     error |-> IF error = Undefined \/ error = "" THEN Unset ELSE error]

\* ---- the credential header ----
\* The two requests in flight come from two payers, so that what one request
\* is given can be told from what the other is given.
Credentials(r) ==
    [kind : {"credential"}, from : {IF r = "r1" THEN "0xbbbb" ELSE "0xcccc"},
     to : {"0xaaaa", "0xAAAA", "0xbbbb"},
     value : {requiredAmountUnits - 1, requiredAmountUnits},
     validAfter : {0, 1}, validBefore : {1, MaxSec + 1}]
\* A header is absent ("none"), sent with an empty value ("empty": c.req.header
\* gives ''), undecodable ("garbage": bad base64, bad JSON or wrong shape), or
\* the encoding of a credential of the right shape.
Headers(r) ==
    {[kind |-> "none"], [kind |-> "empty"], [kind |-> "garbage"]} \cup Credentials(r)

\* AuthorizationSchema's two refinements against the clock
InWindow(cred, t) == cred.validBefore > t /\ cred.validAfter <= t

\* PaymentPayloadSchema.parse of the decoded header: the payload or Null
NullPayload == [kind |-> "null"]

\* Faulty variant: the schema lacks the two refinements against the clock
decodePaymentHeaderNoWindow(header, t) ==
    IF header.kind = "credential" THEN header ELSE NullPayload

decodePaymentHeader(header, t) ==
    IF header.kind = "credential" /\ InWindow(header, t) THEN header ELSE NullPayload

\* ---- outcomes of the facilitator (external) ----
FacVerifyOutcomes ==
    { [kind |-> "result", valid |-> TRUE,  invalidReason |-> Undefined],
      [kind |-> "result", valid |-> FALSE, invalidReason |-> "bad_signature"],
      [kind |-> "result", valid |-> FALSE, invalidReason |-> Null],
      [kind |-> "throws", valid |-> FALSE, invalidReason |-> Undefined] }

FacSettleOutcomes ==
    { [kind |-> "result", success |-> TRUE,  txHash |-> "0xeeee", error |-> Undefined],
      [kind |-> "result", success |-> TRUE,  txHash |-> Undefined, error |-> Undefined],
      [kind |-> "result", success |-> FALSE, txHash |-> Undefined, error |-> "insufficient_funds"],
      [kind |-> "result", success |-> FALSE, txHash |-> Undefined, error |-> Undefined],
      [kind |-> "throws", success |-> FALSE, txHash |-> Undefined, error |-> "network down"] }

\* ---- PaymentService.verifyPayment, up to the call of the facilitator ----

\* Faulty variant: the recipient is not compared at all
recipientMatchesAlways(payload) == TRUE

\* verifyPayment step 2: authorization.to against payTo, both lower-cased
recipientMatches(payload) == toLowerCase(payload.to) = toLowerCase(PayTo)

\* Faulty variant: the comparison lets through a payment one unit short
amountSufficientOffByOne(payload) == payload.value + 1 >= requiredAmountUnits

\* verifyPayment step 3: BigInt(authorization.value) against the required amount
amountSufficient(payload) == payload.value >= requiredAmountUnits

\* Faulty variant: the amount is checked before the recipient
verifyLocalAmountFirst(payload, t) ==
    IF ~InWindow(payload, t)
    THEN [kind |-> "result", valid |-> FALSE, payer |-> Undefined, amount |-> Undefined,
          invalidReason |-> "invalid_payload: " \o
             (IF payload.validBefore > t THEN "Authorization not yet valid"
                                         ELSE "Authorization expired")]
    ELSE IF ~amountSufficient(payload)
    THEN [kind |-> "result", valid |-> FALSE, payer |-> Undefined, amount |-> Undefined,
          invalidReason |-> "insufficient_amount: required "
              \o ToString(requiredAmountUnits) \o ", got " \o ToString(payload.value)]
    ELSE IF ~recipientMatches(payload)
    THEN [kind |-> "result", valid |-> FALSE, payer |-> Undefined, amount |-> Undefined,
          invalidReason |-> "invalid_recipient: payment to wrong address"]
    ELSE [kind |-> "facilitator", valid |-> FALSE, payer |-> Undefined,
          amount |-> Undefined, invalidReason |-> Undefined]

\* The local checks; kind "facilitator" means every local check passed.
\* Faulty variant: verifyPayment trusts the decoding and does not look at the
\* window again
verifyLocalNoRecheck(payload, t) ==
    IF ~recipientMatches(payload)
    THEN [kind |-> "result", valid |-> FALSE, payer |-> Undefined, amount |-> Undefined,
          invalidReason |-> "invalid_recipient: payment to wrong address"]
    ELSE IF ~amountSufficient(payload)
    THEN [kind |-> "result", valid |-> FALSE, payer |-> Undefined, amount |-> Undefined,
          invalidReason |-> "insufficient_amount: required "
              \o ToString(requiredAmountUnits) \o ", got " \o ToString(payload.value)]
    ELSE [kind |-> "facilitator", valid |-> FALSE, payer |-> Undefined,
          amount |-> Undefined, invalidReason |-> Undefined]

verifyLocal(payload, t) ==
    IF ~InWindow(payload, t)
    THEN [kind |-> "result", valid |-> FALSE, payer |-> Undefined, amount |-> Undefined,
          invalidReason |-> "invalid_payload: " \o
             (IF payload.validBefore > t THEN "Authorization not yet valid"
                                         ELSE "Authorization expired")]
    ELSE IF ~recipientMatches(payload)
    THEN [kind |-> "result", valid |-> FALSE, payer |-> Undefined, amount |-> Undefined,
          invalidReason |-> "invalid_recipient: payment to wrong address"]
    ELSE IF ~amountSufficient(payload)
    THEN [kind |-> "result", valid |-> FALSE, payer |-> Undefined, amount |-> Undefined,
          invalidReason |-> "insufficient_amount: required "
              \o ToString(requiredAmountUnits) \o ", got " \o ToString(payload.value)]
    ELSE [kind |-> "facilitator", valid |-> FALSE, payer |-> Undefined,
          amount |-> Undefined, invalidReason |-> Undefined]

\* Faulty variant: the catch clause answers without a reason
verifyResultNoReason(payload, out) ==
    IF out.kind = "throws" \/ ~out.valid
    THEN [kind |-> "result", valid |-> FALSE, payer |-> Undefined, amount |-> Undefined,
          invalidReason |-> IF out.invalidReason \in {Null, Undefined, ""}
                            THEN Undefined ELSE out.invalidReason]
    ELSE [kind |-> "result", valid |-> TRUE, payer |-> payload.from,
          amount |-> ToString(payload.value), invalidReason |-> Undefined]

\* PaymentService.verifyPayment, from the facilitator's answer on
verifyResult(payload, out) ==
    IF out.kind = "throws"
    THEN [kind |-> "result", valid |-> FALSE, payer |-> Undefined, amount |-> Undefined,
          invalidReason |-> "verification failed: internal error"]
    ELSE IF ~out.valid
    THEN [kind |-> "result", valid |-> FALSE, payer |-> Undefined, amount |-> Undefined,
          invalidReason |-> IF out.invalidReason \in {Null, Undefined, ""}
                            THEN "facilitator_rejected" ELSE out.invalidReason]
    ELSE [kind |-> "result", valid |-> TRUE, payer |-> payload.from,
          amount |-> ToString(payload.value), invalidReason |-> Undefined]

\* PaymentService.settlePayment, from the facilitator's answer on
settleResult(out) ==
    IF out.kind = "throws"
    THEN [success |-> FALSE, txHash |-> Undefined, error |-> out.error]
    ELSE [success |-> out.success, txHash |-> out.txHash, error |-> out.error]

\* ---- the middleware's state for one request ----
NoCtx == [x402Payer |-> Unset, x402Amount |-> Unset, x402TxHash |-> Unset,
          x402PaymentPayload |-> Unset]
NoRequirements == [x402Version |-> 0, schemes |-> <<>>, network |-> Unset,
                   payTo |-> Unset, maxAmountRequired |-> 0, resource |-> Unset]
NoBody == [requirements |-> NoRequirements, error |-> Unset]

NewRequest ==
    [pc |-> "AwaitingCredential", hadHeader |-> FALSE,
     headerKind |-> "unread",  \* history: the kind of header the request carried
     headerInWindow |-> FALSE, \* history: a credential inside its window on arrival
     verifiedAt |-> -1,        \* history: the clock when verifyPayment ran
     facVerifyThrew |-> FALSE, \* history: facilitator.verify threw or rejected
     facSettleThrew |-> FALSE, \* history: facilitator.settle threw or rejected
     hookThrew |-> FALSE,      \* history: a configured hook threw or rejected
     ctxAtNext |-> NoCtx,      \* history: the context as it was when next() ran
     paymentPayload |-> NullPayload,
     verification |-> [kind |-> "unset", valid |-> FALSE, payer |-> Unset,
                       amount |-> Unset, invalidReason |-> Unset],
     settlement |-> [success |-> FALSE, txHash |-> Unset, error |-> Unset],
     ctx |-> NoCtx, response |-> [status |-> 0, body |-> NoBody],
     nextCalls |-> 0,          \* invocations of next()
     verifyPaymentCalls |-> 0, \* invocations of paymentService.verifyPayment
     settlePaymentCalls |-> 0, \* invocations of paymentService.settlePayment
     facVerifyCalls |-> 0,     \* invocations of facilitator.verify
     facSettleCalls |-> 0,     \* invocations of facilitator.settle
     facVerifyReq |-> NoRequirements,   \* requirements handed to facilitator.verify
     facSettleReq |-> NoRequirements,   \* requirements handed to facilitator.settle
     facVerifyPayload |-> NullPayload,  \* payload handed to facilitator.verify
     facSettlePayload |-> NullPayload,  \* payload handed to facilitator.settle
     settledAtNext |-> Unset]  \* history: settlement.success as it was when next() ran

\* c.json(build402Response(...), 402)
Reject(rec, r, error) ==
    [rec EXCEPT !.pc = "Rejected",
                !.response = [status |-> 402,
                              body |-> build402Response(ReqUrl(r), error)]]

\* x402.ts step 6: await next()
CallNext(rec) ==
    [rec EXCEPT !.pc = "Admitted", !.nextCalls = @ + 1,
                !.ctxAtNext = rec.ctx,
                !.settledAtNext = IF rec.settlement.error = Unset THEN "never"
                                  ELSE IF rec.settlement.success THEN "success"
                                  ELSE "failed"]

\* Faulty variant: the verification result is kept in one place for all
\* requests, and the context is filled from whichever result is there
AdmitSharedResult(rec) ==
    LET latest == IF \E q \in Reqs : req[q].verification.valid
                  THEN req[CHOOSE q \in Reqs : req[q].verification.valid].verification
                  ELSE rec.verification
        withCtx == [rec EXCEPT !.ctx.x402Payer = latest.payer,
                               !.ctx.x402Amount = latest.amount,
                               !.ctx.x402PaymentPayload = rec.paymentPayload]
    IN  IF gateCfg.onPaymentVerified
        THEN [withCtx EXCEPT !.pc = "HookVerified"]
        ELSE CallNext(withCtx)

\* x402.ts steps 5 and 6: context variables, onPaymentVerified, next()
Admit(rec) ==
    LET withCtx == [rec EXCEPT !.ctx.x402Payer = rec.verification.payer,
                               !.ctx.x402Amount = rec.verification.amount,
                               !.ctx.x402PaymentPayload = rec.paymentPayload]
    IN  IF gateCfg.onPaymentVerified
        THEN [withCtx EXCEPT !.pc = "HookVerified"]
        ELSE CallNext(withCtx)

\* Faulty variant: settlement started but not awaited
StartSettlementFireAndForget(rec) ==
    IF gateCfg.settleBeforeResponse
    THEN Admit([rec EXCEPT !.settlePaymentCalls = @ + 1,
                           !.facSettleCalls = @ + 1,
                           !.facSettlePayload = rec.paymentPayload,
                           !.facSettleReq = buildPaymentRequirements(DefaultResource)])
    ELSE Admit(rec)

\* Faulty variant: settlePayment builds its requirements without the fallback
\* for an unconfigured resource
StartSettlementNoFallback(rec) ==
    IF gateCfg.settleBeforeResponse
    THEN [rec EXCEPT !.pc = "Settling",
                     !.settlePaymentCalls = @ + 1,
                     !.facSettleCalls = @ + 1,
                     !.facSettlePayload = rec.paymentPayload,
                     !.facSettleReq = buildPaymentRequirements(Undefined)]
    ELSE Admit(rec)

\* x402.ts step 4, entered once verification is valid
StartSettlement(rec) ==
    IF gateCfg.settleBeforeResponse
    THEN [rec EXCEPT !.pc = "Settling",
                     !.settlePaymentCalls = @ + 1,
                     !.facSettleCalls = @ + 1,
                     !.facSettlePayload = rec.paymentPayload,
                     !.facSettleReq = buildPaymentRequirements(DefaultResource)]
    ELSE Admit(rec)

\* Faulty variant: the verification result is logged but not acted upon
OnVerificationNoCheck(rec, r, verification) ==
    StartSettlement([rec EXCEPT !.verification = verification])

\* Faulty variant: a facilitator that threw is asked a second time
OnVerificationRetryOnThrow(rec, r, verification) ==
    LET rec1 == [rec EXCEPT !.verification = verification]
    IN  IF ~verification.valid /\ rec.facVerifyThrew /\ rec.facVerifyCalls < 2
        THEN [rec EXCEPT !.pc = "Verifying", !.facVerifyCalls = @ + 1]
        ELSE IF ~verification.valid
        THEN Reject(rec1, r, verification.invalidReason)
        ELSE StartSettlement(rec1)

\* x402.ts step 3, from the verification result on
OnVerification(rec, r, verification) ==
    LET rec1 == [rec EXCEPT !.verification = verification]
    IN  IF ~verification.valid
        THEN Reject(rec1, r, verification.invalidReason)
        ELSE StartSettlement(rec1)

\* Faulty variant: a failed settlement is logged and the request goes on
OnSettlementLogOnly(rec, r, settlement) ==
    LET rec2 == [rec EXCEPT !.settlement = settlement,
                            !.ctx.x402TxHash = settlement.txHash]
    IN  IF gateCfg.onPaymentSettled /\ settlement.txHash # Undefined
        THEN [rec2 EXCEPT !.pc = "HookSettled"]
        ELSE Admit(rec2)

\* x402.ts step 4, from the settlement result on
OnSettlement(rec, r, settlement) ==
    LET rec1 == [rec EXCEPT !.settlement = settlement]
    IN  IF ~settlement.success
        THEN Reject(rec1, r, "settlement_failed: " \o Str(settlement.error))
        ELSE LET rec2 == [rec1 EXCEPT !.ctx.x402TxHash = settlement.txHash]
             IN  IF gateCfg.onPaymentSettled /\ settlement.txHash # Undefined
                 THEN [rec2 EXCEPT !.pc = "HookSettled"]
                 ELSE Admit(rec2)

\* Faulty variant: the header is decoded without looking whether it is there
OnHeaderNoPresenceCheck(rec, r, h) ==
    LET payload == decodePaymentHeader(h, nowSec)
    IN  IF payload = NullPayload THEN Reject(rec, r, "invalid_payment_header")
        ELSE [rec EXCEPT !.pc = "Decoded", !.paymentPayload = payload]

\* x402.ts steps 1 and 2, from the header on
OnHeader(rec, r, h) ==
    LET payload == decodePaymentHeader(h, nowSec)
    IN  IF h.kind \in {"none", "empty"} THEN Reject(rec, r, Undefined)
        ELSE IF payload = NullPayload THEN Reject(rec, r, "invalid_payment_header")
        ELSE [rec EXCEPT !.pc = "Decoded", !.paymentPayload = payload]

\* ---- actions of the gate ----

\* steps 1 and 2: the header is read and decoded
Arrive(r) ==
    /\ req[r].pc = "AwaitingCredential"
    /\ \E h \in Headers(r) :
         LET rec == [req[r] EXCEPT
                       !.hadHeader = (h.kind # "none"),
                       !.headerKind = h.kind,
                       !.headerInWindow = (h.kind = "credential" /\
                                           h.validAfter <= nowSec /\ nowSec < h.validBefore)]
         IN  req' = [req EXCEPT ![r] = OnHeader(rec, r, h)]
    /\ UNCHANGED <<gateCfg, nowSec, resVars, auxVars>>

\* step 3: verifyPayment runs its local checks and calls the facilitator
CallVerifyPayment(r) ==
    /\ req[r].pc = "Decoded"
    /\ LET rec == [req[r] EXCEPT !.verifyPaymentCalls = @ + 1,
                                 !.verifiedAt = nowSec]
           local == verifyLocal(rec.paymentPayload, nowSec)
       IN  req' = [req EXCEPT ![r] =
              IF local.kind = "facilitator"
              THEN [rec EXCEPT !.pc = "Verifying", !.facVerifyCalls = @ + 1,
                       !.facVerifyPayload = rec.paymentPayload,
                       !.facVerifyReq = buildPaymentRequirements(DefaultResource)]
              ELSE OnVerification(rec, r, local)]
    /\ UNCHANGED <<gateCfg, nowSec, resVars, auxVars>>

\* the facilitator's verify settles
FacilitatorVerifyReturns(r) ==
    /\ req[r].pc = "Verifying"
    /\ \E out \in FacVerifyOutcomes :
         req' = [req EXCEPT ![r] =
                   OnVerification([req[r] EXCEPT !.facVerifyThrew = (out.kind = "throws")],
                                  r, verifyResult(req[r].paymentPayload, out))]
    /\ UNCHANGED <<gateCfg, nowSec, resVars, auxVars>>

\* the facilitator's settle settles
FacilitatorSettleReturns(r) ==
    /\ req[r].pc = "Settling"
    /\ \E out \in FacSettleOutcomes :
         req' = [req EXCEPT ![r] =
                   OnSettlement([req[r] EXCEPT !.facSettleThrew = (out.kind = "throws")],
                                r, settleResult(out))]
    /\ UNCHANGED <<gateCfg, nowSec, resVars, auxVars>>

\* await onPaymentSettled(c, txHash): it resolves or it throws
HookSettledReturns(r) ==
    /\ req[r].pc = "HookSettled"
    /\ \E ok \in BOOLEAN :
         req' = [req EXCEPT ![r] =
                   IF ok THEN Admit(req[r])
                   ELSE [req[r] EXCEPT !.pc = "Faulted", !.hookThrew = TRUE,
                            !.response = [status |-> 500, body |-> NoBody]]]
    /\ UNCHANGED <<gateCfg, nowSec, resVars, auxVars>>

\* await onPaymentVerified(c, payer, amount): it resolves or it throws
HookVerifiedReturns(r) ==
    /\ req[r].pc = "HookVerified"
    /\ \E ok \in BOOLEAN :
         req' = [req EXCEPT ![r] =
                   IF ok THEN CallNext(req[r])
                   ELSE [req[r] EXCEPT !.pc = "Faulted", !.hookThrew = TRUE,
                            !.response = [status |-> 500, body |-> NoBody]]]
    /\ UNCHANGED <<gateCfg, nowSec, resVars, auxVars>>

\* the downstream handler answers
HandlerResponds(r) ==
    /\ req[r].pc = "Admitted"
    /\ req' = [req EXCEPT ![r].pc = "Responded",
                          ![r].response = [status |-> 200, body |-> NoBody]]
    /\ UNCHANGED <<gateCfg, nowSec, resVars, auxVars>>

GateTick ==
    /\ nowSec < MaxSec
    /\ nowSec' = nowSec + 1
    /\ UNCHANGED <<gateCfg, req, resVars, auxVars>>

\* ---- the resilient client at rest (used while only the gate runs) ----
ResIdle ==
    /\ resCfg = [name |-> "eigenai", failureThreshold |-> 1, maxRetries |-> 0,
                 resetTimeout |-> 1]
    /\ now = 0 /\ bstate = "Closed" /\ openedAt = 0 /\ count = 0
    /\ previousState = "Closed" /\ events = <<>> /\ emitted = 0
    /\ tester = "" /\ call = <<>> /\ fnCalls = 0 /\ consec = 0 /\ started = 0

GateInit ==
    /\ gateCfg \in [settleBeforeResponse : BOOLEAN, onPaymentVerified : BOOLEAN,
                     onPaymentSettled : BOOLEAN]
    /\ nowSec = 0
    /\ req = [r \in Reqs |-> NewRequest]
    /\ ResIdle
    /\ AuxIdle

GateNext ==
    \/ \E r \in Reqs : Arrive(r)
    \/ \E r \in Reqs : CallVerifyPayment(r)
    \/ \E r \in Reqs : FacilitatorVerifyReturns(r)
    \/ \E r \in Reqs : FacilitatorSettleReturns(r)
    \/ \E r \in Reqs : HookSettledReturns(r)
    \/ \E r \in Reqs : HookVerifiedReturns(r)
    \/ \E r \in Reqs : HandlerResponds(r)
    \/ GateTick

SpecGate == GateInit /\ [][GateNext]_vars

(***************************************************************************)
(*                          RESILIENT CLIENT                               *)
(***************************************************************************)

\* ---- bounds ----
MaxThreshold == 2      \* failureThreshold ranges over 1..MaxThreshold
MaxRetriesCfg == 1     \* maxRetries ranges over 0..MaxRetriesCfg
MaxTime == 4           \* the clock stops here
MaxCalls == 3          \* execute calls started in one behaviour

ResetTicks == 2        \* resetTimeout, in ticks of the clock

\* callers sharing the one client
Callers == {"a", "b"}

\* resilience.ts: stateNames
stateNames(state) ==
    CASE state = "Closed"   -> "closed"
      [] state = "Open"     -> "open"
      [] state = "HalfOpen" -> "half-open"
      [] state = "Isolated" -> "isolated"

\* ---- errors ----
NoError == [type |-> "none", serviceName |-> "", attempt |-> 0]
\* the error thrown by the wrapped function at its n-th invocation in a call
FnError(n) == [type |-> "Error", serviceName |-> "", attempt |-> n]
BrokenCircuitError == [type |-> "BrokenCircuitError", serviceName |-> "", attempt |-> 0]
IsolatedCircuitError == [type |-> "IsolatedCircuitError", serviceName |-> "", attempt |-> 0]
CircuitOpenError(serviceName) ==
    [type |-> "CircuitOpenError", serviceName |-> serviceName, attempt |-> 0]

\* the value the wrapped function of caller c resolves with
FnValue(c) == "value-" \o c

\* ---- what an inference call adds to the locals of an execute call ----
\* Headers.get of a header the response does not carry
NoHeaderValue == "null"

\* no error thrown yet by the wrapped function of this call
NoTypedError == [type |-> "none", message |-> "", status |-> 0, error |-> ""]

NoReport ==
    [metrics |-> "none",
     proof |-> [eigenaiProof |-> NoHeaderValue, modelId |-> "", promptHash |-> ""]]

IdleCall ==
    [pc |-> "idle",
     plan |-> 0,          \* failures the wrapped function still has in store
     attempts |-> 0,      \* attempts the retry policy has made
     invoked |-> 0,       \* invocations of the wrapped function in this call
     err |-> NoError,     \* the last attempt's error
     waitOn |-> "",       \* the caller whose probe this call awaits
     outcome |-> "none",  \* "resolved" or "rejected"
     value |-> "",        \* the value execute resolved with
     thrown |-> NoError,  \* the error execute rejected with
     \* ---- history of the call ----
     k |-> 0,                 \* the plan the call started with
     startState |-> "Closed", \* breaker state when execute was called
     startFresh |-> FALSE,    \* Open and resetTimeout not elapsed at that time
     startCount |-> 0,        \* consecutive-failure count at that time
     overlapped |-> FALSE,    \* another call was in progress during this one
     fastRejects |-> 0,       \* attempts the breaker rejected without invoking
     lastFnErr |-> NoError,   \* error of the last failed invocation
     probed |-> FALSE,        \* one of its invocations was a half-open probe
     \* ---- an inference call's last exchange with the provider ----
     \* the response to the last invocation (none received yet)
     response |-> [kind |-> "none", ok |-> FALSE, status |-> 0, errBody |-> "",
                   proof |-> NoHeaderValue, model |-> NoHeaderValue, body |-> "none"],
     fnThrown |-> NoTypedError,       \* what the last failed invocation threw
     report |-> NoReport,             \* what generateImpactReport resolved with
     onlyNonOk |-> TRUE]              \* history: every response so far was non-success

\* ---- the mutable state as one record, so that the steps compose ----
World ==
    [bstate |-> bstate, openedAt |-> openedAt, count |-> count,
     previousState |-> previousState, events |-> events, emitted |-> emitted,
     tester |-> tester, call |-> call, fnCalls |-> fnCalls, consec |-> consec]

Becomes(w) ==
    /\ bstate' = w.bstate /\ openedAt' = w.openedAt /\ count' = w.count
    /\ previousState' = w.previousState /\ events' = w.events
    /\ emitted' = w.emitted /\ tester' = w.tester /\ call' = w.call /\ fnCalls' = w.fnCalls
    /\ consec' = w.consec

Active(c) == call[c].pc \notin {"idle", "done"}

\* Faulty variant: the listener forgets to remember the state it reported
onStateChangeForgetful(w, state) ==
    IF state # w.previousState
    THEN [w EXCEPT !.events = Append(@, [name |-> resCfg.name,
                                         from |-> stateNames(w.previousState),
                                         to |-> stateNames(state),
                                         timestamp |-> now])]
    ELSE w

\* resilience.ts: the listener registered with breaker.onStateChange
onStateChange(w, state) ==
    IF state # w.previousState
    THEN [w EXCEPT !.events = Append(@, [name |-> resCfg.name,
                                         from |-> stateNames(w.previousState),
                                         to |-> stateNames(state),
                                         timestamp |-> now]),
                   !.previousState = state]
    ELSE w

\* the breaker's state-change emitter fires
Emit(w, state) == onStateChange([w EXCEPT !.emitted = @ + 1], state)

\* Faulty variant: a breaker that counts failures without resetting on success
breakerSuccessNoReset(w) == w

\* ConsecutiveBreaker.success
breakerSuccess(w) == [w EXCEPT !.count = 0]

\* Faulty variant: the breaker does not count the failure
breakerFailureUncounted(w) == w

\* ConsecutiveBreaker.failure: the counter after the failure
breakerFailure(w) == [w EXCEPT !.count = @ + 1]

\* Faulty variant: the breaker trips one failure late
ShouldBreakLate(w) == w.count > resCfg.failureThreshold

\* ConsecutiveBreaker.failure's verdict, on the incremented counter
ShouldBreak(w) == w.count >= resCfg.failureThreshold

\* the circuit breaker opens
Open(w) ==
    IF w.bstate \in {"Isolated", "Open"} THEN w
    ELSE Emit([w EXCEPT !.bstate = "Open", !.openedAt = now], "Open")

\* Faulty variant: the breaker never closes again
CloseNever(w) == w

\* the circuit breaker closes after a successful probe
Close(w) ==
    IF w.bstate = "HalfOpen" THEN Emit([w EXCEPT !.bstate = "Closed"], "Closed")
    ELSE w

\* the wrapped function of caller c is invoked
Invoke(w, c, pc) ==
    [w EXCEPT !.fnCalls = @ + 1,
              !.call[c].invoked = @ + 1,
              !.call[c].pc = pc,
              !.call[c].probed = @ \/ (pc = "probe")]

\* Faulty variant: the retry budget does not count the first attempt
maxAttemptsOffByOne == resCfg.maxRetries

\* retry(handleAll, { maxAttempts: maxRetries + 1 })
maxAttempts == resCfg.maxRetries + 1

\* the retry policy sees an attempt fail with err: it backs off for another
\* attempt, or gives up and policy.execute rejects with err
AttemptFailed(w, c, err) ==
    IF w.call[c].attempts < maxAttempts
    THEN [w EXCEPT !.call[c].pc = "backoff", !.call[c].err = err]
    ELSE [w EXCEPT !.call[c].pc = "rejected", !.call[c].err = err]

\* the open breaker's reset timeout has elapsed
HalfOpenAfterElapsed(w) == now - w.openedAt >= resCfg.resetTimeout

\* Faulty variant: a half-open breaker lets every call through instead of making it
\* wait for the probe
BreakerExecuteNoWait(w, c) ==
    CASE w.bstate \in {"Closed", "HalfOpen"} -> Invoke(w, c, "inFlight")
      [] w.bstate = "Open" ->
           IF ~HalfOpenAfterElapsed(w)
           THEN AttemptFailed([w EXCEPT !.call[c].fastRejects = @ + 1],
                              c, BrokenCircuitError)
           ELSE Emit([Invoke(w, c, "probe") EXCEPT !.bstate = "HalfOpen",
                                                   !.tester = c],
                     "HalfOpen")
      [] w.bstate = "Isolated" -> AttemptFailed(w, c, IsolatedCircuitError)

\* the circuit breaker's execute, up to its first suspension
BreakerExecute(w, c) ==
    CASE w.bstate = "Closed" -> Invoke(w, c, "inFlight")
      [] w.bstate = "HalfOpen" ->
           [w EXCEPT !.call[c].pc = "waitTest",
                     !.call[c].waitOn = w.tester]
      [] w.bstate = "Open" ->
           IF ~HalfOpenAfterElapsed(w)
           THEN AttemptFailed([w EXCEPT !.call[c].fastRejects = @ + 1],
                              c, BrokenCircuitError)
           ELSE Emit([Invoke(w, c, "probe") EXCEPT !.bstate = "HalfOpen",
                                                   !.tester = c],
                     "HalfOpen")
      [] w.bstate = "Isolated" -> AttemptFailed(w, c, IsolatedCircuitError)

\* execute's promise resolves with the wrapped function's value
Resolve(w, c) ==
    [w EXCEPT !.call[c].pc = "done", !.call[c].outcome = "resolved",
              !.call[c].value = FnValue(c)]

\* the calls awaiting caller c's probe are resumed
WakeWaiters(w, c) ==
    [w EXCEPT !.call = [d \in Callers |->
        IF w.call[d].pc = "waitTest" /\ w.call[d].waitOn = c
        THEN [w.call[d] EXCEPT !.pc = "woken"] ELSE w.call[d]]]

\* the wrapped function fails at an invocation: the bookkeeping of the call
NoteFailure(w, c) ==
    [w EXCEPT !.consec = @ + 1,
              !.call[c].plan = @ - 1,
              !.call[c].lastFnErr = FnError(w.call[c].invoked)]

\* Faulty variant: the counter is read when the call begins and written back
\* when its attempt fails, so that of two overlapping failures one is lost
ClosedSettledStaleCount(w, c) ==
    IF w.call[c].plan = 0
    THEN Resolve([breakerSuccess(w) EXCEPT !.consec = 0], c)
    ELSE LET w1 == [NoteFailure(w, c) EXCEPT !.count = w.call[c].startCount + 1]
             w2 == IF ShouldBreak(w1) THEN Open(w1) ELSE w1
         IN  AttemptFailed(w2, c, FnError(w.call[c].invoked))

\* an invocation made while the breaker was Closed settles
ClosedSettled(w, c) ==
    IF w.call[c].plan = 0
    THEN Resolve([breakerSuccess(w) EXCEPT !.consec = 0], c)
    ELSE LET w1 == breakerFailure(NoteFailure(w, c))
             w2 == IF ShouldBreak(w1) THEN Open(w1) ELSE w1
         IN  AttemptFailed(w2, c, FnError(w.call[c].invoked))

\* the half-open probe settles
ProbeSettled(w, c) ==
    IF w.call[c].plan = 0
    THEN WakeWaiters(Resolve(Close([breakerSuccess(w) EXCEPT !.consec = 0]), c), c)
    ELSE WakeWaiters(
           AttemptFailed(Open(breakerFailure(NoteFailure(w, c))), c,
                         FnError(w.call[c].invoked)), c)

\* Faulty variant: the catch clause takes the breaker out of service
\* (breaker.isolate()) when the policy has rejected
CatchIsolates(w, c) ==
    [w EXCEPT !.bstate = "Isolated",
              !.call[c].pc = "done", !.call[c].outcome = "rejected",
              !.call[c].thrown = IF w.bstate = "Open"
                                 THEN CircuitOpenError(resCfg.name)
                                 ELSE w.call[c].err]

\* resilience.ts: the catch clause of execute
Catch(w, c) ==
    [w EXCEPT !.call[c].pc = "done", !.call[c].outcome = "rejected",
              !.call[c].thrown = IF w.bstate = "Open"
                                 THEN CircuitOpenError(resCfg.name)
                                 ELSE w.call[c].err]

\* ---- actions of the resilient client ----

\* client.execute(fn) is called; fn fails k times before it succeeds
Execute(c) ==
    /\ ~Active(c)
    /\ started < MaxCalls
    \* the function's plan: the number of invocations that fail before one
    \* succeeds (MaxRetriesCfg + 1 failures outlast every retry budget)
    /\ \E k \in 0..(MaxRetriesCfg + 1) :
         LET others == \E d \in Callers \ {c} : Active(d)
             fresh == [IdleCall EXCEPT
                         !.plan = k, !.k = k, !.attempts = 1,
                         !.startState = bstate,
                         !.startFresh = (bstate = "Open" /\
                                         now - openedAt < resCfg.resetTimeout),
                         !.startCount = count,
                         !.overlapped = others]
             w == [World EXCEPT !.call = [d \in Callers |->
                      IF d = c THEN fresh
                      ELSE IF Active(d) THEN [call[d] EXCEPT !.overlapped = TRUE]
                      ELSE call[d]]]
         IN  Becomes(BreakerExecute(w, c))
    /\ started' = started + 1
    /\ UNCHANGED <<resCfg, now, gateVars, auxVars>>

\* the wrapped function, invoked through a closed breaker, settles
FnSettles(c) ==
    /\ call[c].pc = "inFlight"
    /\ Becomes(ClosedSettled(World, c))
    /\ UNCHANGED <<resCfg, now, started, gateVars, auxVars>>

\* the wrapped function, invoked as the half-open probe, settles
ProbeSettles(c) ==
    /\ call[c].pc = "probe"
    /\ Becomes(ProbeSettled(World, c))
    /\ UNCHANGED <<resCfg, now, started, gateVars, auxVars>>

\* a call that awaited the probe runs the breaker's execute again
Reenter(c) ==
    /\ call[c].pc = "woken"
    /\ Becomes(BreakerExecute(World, c))
    /\ UNCHANGED <<resCfg, now, started, gateVars, auxVars>>

\* the backoff delay is over: the retry policy makes its next attempt
BackoffDone(c) ==
    /\ call[c].pc = "backoff"
    /\ Becomes(BreakerExecute([World EXCEPT !.call[c].attempts = @ + 1], c))
    /\ UNCHANGED <<resCfg, now, started, gateVars, auxVars>>

\* the rejection of policy.execute reaches execute's catch clause
Caught(c) ==
    /\ call[c].pc = "rejected"
    /\ Becomes(Catch(World, c))
    /\ UNCHANGED <<resCfg, now, started, gateVars, auxVars>>

ResTick ==
    /\ now < MaxTime
    /\ now' = now + 1
    /\ UNCHANGED <<resCfg, bstate, openedAt, count, previousState, events,
                   emitted, tester, call, fnCalls, consec, started, gateVars, auxVars>>

\* ---- the gate at rest (used while only the client runs) ----
GateIdle ==
    /\ gateCfg = [settleBeforeResponse |-> FALSE, onPaymentVerified |-> FALSE,
                  onPaymentSettled |-> FALSE]
    /\ nowSec = 0
    /\ req = <<>>

ResInit ==
    /\ resCfg \in [name : {"eigenai"}, failureThreshold : 1..MaxThreshold,
                    maxRetries : 0..MaxRetriesCfg, resetTimeout : {ResetTicks}]
    /\ now = 0 /\ bstate = "Closed" /\ openedAt = 0 /\ count = 0
    /\ previousState = "Closed" /\ events = <<>> /\ emitted = 0
    /\ tester = ""
    /\ call = [c \in Callers |-> IdleCall]
    /\ fnCalls = 0 /\ consec = 0 /\ started = 0
    /\ GateIdle
    /\ AuxIdle

ResNext ==
    \/ \E c \in Callers : Execute(c)
    \/ \E c \in Callers : FnSettles(c)
    \/ \E c \in Callers : ProbeSettles(c)
    \/ \E c \in Callers : Reenter(c)
    \/ \E c \in Callers : BackoffDone(c)
    \/ \E c \in Callers : Caught(c)
    \/ ResTick

SpecRes == ResInit /\ [][ResNext]_vars

(***************************************************************************)
(*              INFERENCE CLIENT (src/services/eigenai.ts)                 *)
(***************************************************************************)

\* ---- the client EigenAIService constructs ----
DefaultFailureThreshold == 3
EigenMaxRetries == 2

ConfigModel == "eigen-model"
PromptHash  == "0xhash"

\* failureThreshold is configurable (the default included), maxRetries is not
EigenCfgs == [name : {"eigenai"}, failureThreshold : {1, DefaultFailureThreshold},
              maxRetries : {EigenMaxRetries}, resetTimeout : {ResetTicks}]

\* ---- what the provider may answer to one fetch ----
ProviderResponses ==
    \* a non-success status, with an error body that parses or does not
    { [kind |-> "response", ok |-> FALSE, status |-> 429,
       errBody |-> "Too many requests",
       proof |-> NoHeaderValue, model |-> NoHeaderValue, body |-> "none"],
      [kind |-> "response", ok |-> FALSE, status |-> 500, errBody |-> "unparseable",
       proof |-> "proof-1", model |-> NoHeaderValue, body |-> "none"] }
    \cup
    \* a success status
    [kind : {"response"}, ok : {TRUE}, status : {200}, errBody : {""},
     proof : {NoHeaderValue, "", "proof-1", "proof-2"}, model : {NoHeaderValue},
     body : {"valid"}]

EigenAIError(message, status, error) ==
    [type |-> "EigenAIError", message |-> message, status |-> status, error |-> error]

\* Faulty variant: the proof header is read but its absence is not an error
attemptOutcomeProofOptional(resp) ==
    IF resp.kind = "networkError"
    THEN [returns |-> FALSE, report |-> NoReport,
          thrown |-> [type |-> "TypeError", message |-> "fetch failed",
                      status |-> 0, error |-> ""]]
    ELSE IF ~resp.ok
    THEN [returns |-> FALSE, report |-> NoReport,
          thrown |-> EigenAIError("API error", resp.status,
                        IF resp.errBody = "unparseable" THEN "{}" ELSE resp.errBody)]
    ELSE IF resp.body = "invalidShape"
    THEN [returns |-> FALSE, report |-> NoReport,
          thrown |-> EigenAIError("Invalid API response", 0, "")]
    ELSE IF resp.body = "invalidMetrics"
    THEN [returns |-> FALSE, report |-> NoReport,
          thrown |-> EigenAIError("Invalid AI response structure", 0, "")]
    ELSE [returns |-> TRUE, thrown |-> NoTypedError,
          report |-> [metrics |-> "metrics",
                      proof |-> [eigenaiProof |-> resp.proof,
                                 modelId |-> IF resp.model \in {NoHeaderValue, ""}
                                             THEN ConfigModel ELSE resp.model,
                                 promptHash |-> PromptHash]]]

\* the function generateImpactReport hands to client.execute, from the
\* provider's response on: the report it returns or the error it throws
attemptOutcome(resp) ==
    IF resp.kind = "networkError"
    THEN [returns |-> FALSE, report |-> NoReport,
          thrown |-> [type |-> "TypeError", message |-> "fetch failed",
                      status |-> 0, error |-> ""]]
    ELSE IF ~resp.ok
    THEN [returns |-> FALSE, report |-> NoReport,
          thrown |-> EigenAIError("API error", resp.status,
                        IF resp.errBody = "unparseable" THEN "{}" ELSE resp.errBody)]
    ELSE IF resp.proof \in {NoHeaderValue, ""}
    THEN [returns |-> FALSE, report |-> NoReport,
          thrown |-> EigenAIError("Missing verification proof", 0, "")]
    ELSE IF resp.body = "invalidShape"
    THEN [returns |-> FALSE, report |-> NoReport,
          thrown |-> EigenAIError("Invalid API response", 0, "")]
    ELSE IF resp.body = "invalidMetrics"
    THEN [returns |-> FALSE, report |-> NoReport,
          thrown |-> EigenAIError("Invalid AI response structure", 0, "")]
    ELSE [returns |-> TRUE, thrown |-> NoTypedError,
          report |-> [metrics |-> "metrics",
                      proof |-> [eigenaiProof |-> resp.proof,
                                 modelId |-> IF resp.model \in {NoHeaderValue, ""}
                                             THEN ConfigModel ELSE resp.model,
                                 promptHash |-> PromptHash]]]

\* ---- actions of the inference client ----

\* generateImpactReport(input) is called: client.execute(fn) starts
\* (each caller makes one call; the callers' calls may overlap)
GenerateImpactReport(c) ==
    /\ call[c].pc = "idle"
    /\ LET others == \E d \in Callers \ {c} : Active(d)
           fresh == [IdleCall EXCEPT
                       !.attempts = 1,
                       !.startState = bstate,
                       !.startFresh = (bstate = "Open" /\
                                       now - openedAt < resCfg.resetTimeout),
                       !.startCount = count,
                       !.overlapped = others]
           w == [World EXCEPT !.call = [d \in Callers |->
                    IF d = c THEN fresh
                    ELSE IF Active(d) THEN [call[d] EXCEPT !.overlapped = TRUE]
                    ELSE call[d]]]
       IN  Becomes(BreakerExecute(w, c))
    /\ started' = started + 1
    /\ UNCHANGED <<resCfg, now, gateVars, auxVars>>

\* the provider answers the fetch of caller c's current attempt (or the fetch
\* fails): the wrapped function returns a report or throws, and the breaker
\* and the retry policy take it from there
ProviderResponds(c) ==
    /\ call[c].pc \in {"inFlight", "probe"}
    /\ \E resp \in ProviderResponses :
         LET out == attemptOutcome(resp)
             w0 == [World EXCEPT
                      !.call[c].plan = IF out.returns THEN 0 ELSE 1,
                      !.call[c].response = resp,
                      !.call[c].fnThrown = IF out.returns THEN @ ELSE out.thrown,
                      !.call[c].onlyNonOk = @ /\ resp.kind = "response" /\ ~resp.ok]
             w1 == IF call[c].pc = "inFlight" THEN ClosedSettled(w0, c)
                                              ELSE ProbeSettled(w0, c)
         IN  Becomes([w1 EXCEPT !.call[c].report =
                         IF w1.call[c].outcome = "resolved" THEN out.report ELSE @])
    /\ UNCHANGED <<resCfg, now, started, gateVars, auxVars>>

EigenInit ==
    /\ resCfg \in EigenCfgs
    /\ now = 0 /\ bstate = "Closed" /\ openedAt = 0 /\ count = 0
    /\ previousState = "Closed" /\ events = <<>> /\ emitted = 0
    /\ tester = ""
    /\ call = [c \in Callers |-> IdleCall]
    /\ fnCalls = 0 /\ consec = 0 /\ started = 0
    /\ GateIdle
    /\ AuxIdle

EigenNext ==
    \/ \E c \in Callers : GenerateImpactReport(c)
    \/ \E c \in Callers : ProviderResponds(c)
    \/ \E c \in Callers : Reenter(c)
    \/ \E c \in Callers : BackoffDone(c)
    \/ \E c \in Callers : Caught(c)
    \/ ResTick

SpecEigen == EigenInit /\ [][EigenNext]_vars

(***************************************************************************)
(*        HEALTH PROBE OF THE INFERENCE CLIENT (src/services/eigenai.ts)   *)
(***************************************************************************)

\* ---- how the probe's fetch of baseUrl/models may settle ----
HealthFetchOutcomes ==
    { [kind |-> "response", ok |-> TRUE,  isError |-> FALSE, message |-> ""],
      [kind |-> "response", ok |-> FALSE, isError |-> FALSE, message |-> ""],
      \* the fetch rejects: a slow provider, the abort after the 5000 ms timer,
      \* a transport failure, or a rejection with something that is no Error
      [kind |-> "rejects", ok |-> FALSE, isError |-> TRUE,  message |-> "timeout"],
      [kind |-> "rejects", ok |-> FALSE, isError |-> TRUE,
       message |-> "This operation was aborted"],
      [kind |-> "rejects", ok |-> FALSE, isError |-> TRUE,  message |-> "fetch failed"],
      [kind |-> "rejects", ok |-> FALSE, isError |-> FALSE, message |-> "ECONNRESET"] }

\* Faulty variant: the rejection of the fetch is not caught
healthCheckUncaught(out) ==
    IF out.kind = "response"
    THEN [kind |-> "returns", healthy |-> out.ok, error |-> Unset]
    ELSE [kind |-> "throws", healthy |-> FALSE, error |-> out.message]

\* healthCheck from the settling of its fetch on: what the call gives
healthCheck(out) ==
    IF out.kind = "response"
    THEN [kind |-> "returns", healthy |-> out.ok, error |-> Unset]
    ELSE [kind |-> "returns", healthy |-> FALSE,
          error |-> IF out.isError THEN out.message ELSE "Unknown error"]

\* healthCheck() is called: the fetch is sent directly, not through the client
HealthCheck ==
    /\ health.pc \in {"idle", "done"}
    /\ health' = [pc |-> "inFlight", fetched |-> Off, result |-> Off,
                  checks |-> health.checks]
    /\ UNCHANGED <<gateVars, resVars, moreVars, signing, codec, limiter, env, cachedConfig,
                   loaded>>

\* the probe's fetch settles and healthCheck returns
HealthSettles ==
    /\ health.pc = "inFlight"
    /\ \E out \in HealthFetchOutcomes :
         health' = [pc |-> "done", fetched |-> out, result |-> healthCheck(out),
                    checks |-> TRUE]
    /\ UNCHANGED <<gateVars, resVars, moreVars, signing, codec, limiter, env, cachedConfig,
                   loaded>>

\* one caller generates a report while the service is probed (with no second
\* caller, no call ever waits for another call's probe)
Reporters == {"a"}

HealthInit ==
    /\ resCfg \in EigenCfgs
    /\ now = 0 /\ bstate = "Closed" /\ openedAt = 0 /\ count = 0
    /\ previousState = "Closed" /\ events = <<>> /\ emitted = 0
    /\ tester = ""
    /\ call = [c \in Callers |-> IdleCall]
    /\ fnCalls = 0 /\ consec = 0 /\ started = 0
    /\ GateIdle
    /\ health = [pc |-> "idle", fetched |-> Off, result |-> Off,
                 checks |-> FALSE]
    /\ signing = Off /\ codec = Off /\ limiter = Off
    /\ env = Off /\ cachedConfig = Off /\ loaded = Off
    /\ amount = Off /\ app = Off

HealthNext ==
    \/ HealthCheck
    \/ HealthSettles
    \/ \E c \in Reporters : GenerateImpactReport(c)
    \/ \E c \in Reporters : ProviderResponds(c)
    \/ \E c \in Reporters : BackoffDone(c)
    \/ \E c \in Reporters : Caught(c)
    \/ ResTick

SpecHealth == HealthInit /\ [][HealthNext]_vars

(***************************************************************************)
(*                    PROPERTIES OF THE RESILIENT CLIENT                   *)
(***************************************************************************)

\* caller c ran the breaker's execute in this step (a first attempt, a retry
\* after its backoff, or the re-execution after awaiting the probe)
Entered(c) ==
    \/ call[c].pc \in {"idle", "done", "woken"} /\ call'[c].pc # call[c].pc
    \/ call[c].pc = "backoff" /\ call'[c].attempts # call[c].attempts

\* the breaker is Open and its resetTimeout has not elapsed
WithinReset == bstate = "Open" /\ now - openedAt < resCfg.resetTimeout

\* the breaker is Open and its resetTimeout has elapsed
ResetElapsed == bstate = "Open" /\ now - openedAt >= resCfg.resetTimeout

C4_Step ==
    resCfg.maxRetries = 0 =>
      /\ (consec' > consec /\ consec' >= resCfg.failureThreshold) => bstate' = "Open"
      /\ \A c \in Callers :
           /\ (Entered(c) /\ WithinReset) =>
                 /\ fnCalls' = fnCalls
                 /\ call'[c].invoked = 0
                 /\ call'[c].pc = "rejected"
           /\ (call[c].pc = "rejected" /\ call'[c].pc = "done"
                 /\ call[c].startFresh /\ ~call[c].overlapped) =>
                 /\ call'[c].thrown = CircuitOpenError(resCfg.name)
                 /\ call'[c].invoked = 0

ResolvedAfterRetries(c) ==
    /\ call[c].outcome = "resolved"
    /\ call[c].value = FnValue(c)
    /\ call[c].invoked = call[c].k + 1

\* C5 as stated: k <= maxRetries and k < failureThreshold suffice.
C5_Original ==
    \A c \in Callers :
        (call[c].pc = "done" /\ call[c].k <= resCfg.maxRetries
           /\ call[c].k < resCfg.failureThreshold) => ResolvedAfterRetries(c)

\* C5 (amended): a function that fails k <= maxRetries times and then
\* succeeds makes execute resolve with its value after exactly k+1
\* invocations, when the call starts with the breaker Closed, the failures
\* already counted plus k stay below failureThreshold, and no other call is
\* in progress meanwhile.
C5_RetryUntilSuccess ==
    \A c \in Callers :
        (call[c].pc = "done" /\ call[c].k <= resCfg.maxRetries
           /\ call[c].startState = "Closed"
           /\ call[c].startCount + call[c].k < resCfg.failureThreshold
           /\ ~call[c].overlapped) => ResolvedAfterRetries(c)

C5_Witness ==
    \E c \in Callers :
        /\ call[c].pc = "done" /\ call[c].k = resCfg.maxRetries /\ call[c].k >= 1
        /\ ~call[c].overlapped /\ call[c].startState = "Closed"
        /\ ResolvedAfterRetries(c)

\* C6: when every one of the maxRetries+1 attempts of a call invoked the
\* wrapped function and failed, execute rejects with the error thrown by the
\* last invocation.
C6_Original ==
    \A c \in Callers :
        (call[c].pc = "done" /\ call[c].outcome = "rejected"
           /\ call[c].invoked = resCfg.maxRetries + 1) =>
            call[c].thrown = FnError(resCfg.maxRetries + 1)

C7_Step ==
    \A c \in Callers :
        /\ (Entered(c) /\ ResetElapsed) =>
              /\ bstate' = "HalfOpen"
              /\ call'[c].pc = "probe"
              /\ call'[c].invoked = call'[c].attempts - call'[c].fastRejects
              /\ fnCalls' = fnCalls + 1
        /\ (call[c].pc = "probe" /\ call'[c].pc # "probe" /\ ~call[c].overlapped) =>
              IF call[c].plan = 0
              THEN /\ bstate' = "Closed"
                   /\ call'[c].pc = "done" /\ call'[c].outcome = "resolved"
                   /\ call'[c].value = FnValue(c)
              ELSE /\ bstate' = "Open" /\ openedAt' = now
                   /\ call'[c].pc \in {"backoff", "rejected"}
        /\ (Entered(c) /\ WithinReset) =>
              /\ bstate' = "Open" /\ openedAt' = openedAt
              /\ fnCalls' = fnCalls
              /\ call'[c].err = BrokenCircuitError

C7_WitnessReopened ==
    \E c \in Callers :
        /\ call[c].pc = "done" /\ call[c].startFresh /\ ~call[c].overlapped
        /\ bstate = "Open" /\ Len(events) = 3 /\ openedAt > 0

C8_Step ==
    /\ (bstate # "HalfOpen" /\ bstate' = "HalfOpen") =>
          /\ fnCalls' = fnCalls + 1
          /\ Cardinality({c \in Callers :
                 call'[c].pc = "probe" /\ call[c].pc # "probe"}) = 1
    /\ (bstate = "HalfOpen" /\ bstate' = "HalfOpen") => fnCalls' = fnCalls
    /\ \A c \in Callers :
          /\ (Entered(c) /\ bstate = "HalfOpen") =>
                /\ call'[c].pc = "waitTest"
                /\ call'[c].waitOn = tester
                /\ call[tester].pc = "probe"
          /\ (call[c].pc = "waitTest" /\ call'[c].pc # "waitTest") =>
                /\ call[call[c].waitOn].pc = "probe"
                /\ call'[call[c].waitOn].pc # "probe"

ClosedAttemptFails(c) ==
    call[c].pc = "inFlight" /\ call'[c].pc \in {"backoff", "rejected"}

C9_Common ==
    /\ count' = consec'
    /\ consec' \in {consec, 0, consec + 1}
    /\ (bstate = "Closed" /\ consec' > consec /\ consec' >= resCfg.failureThreshold)
          => bstate' = "Open"

\* C9 as stated: Closed -> Open happens exactly at failureThreshold
\* consecutive failures and never after fewer.
C9_Original ==
    [][C9_Common /\ ((bstate = "Closed" /\ bstate' = "Open")
                       => consec' = resCfg.failureThreshold)]_vars

\* C9 (amended): the breaker's count is the number of failed invocations
\* since the last successful one; the failure of an attempt admitted through
\* the closed breaker opens it exactly when that count reaches
\* failureThreshold and never earlier. (The failure of a half-open probe
\* opens the breaker whatever the count.)
C9_ConsecutiveFailuresOpen ==
    [][C9_Common /\ \A c \in Callers :
          (ClosedAttemptFails(c) /\ bstate = "Closed") =>
             (bstate' = "Open" <=> consec' = resCfg.failureThreshold)]_vars

C9_Witness ==
    /\ bstate = "Open" /\ resCfg.failureThreshold = 2 /\ consec = 2
    /\ fnCalls >= 4 /\ Len(events) = 1

\* the label of a breaker state in an event
C10_Label(state) ==
    CASE state = "Closed" -> "closed" [] state = "Open" -> "open"
      [] state = "HalfOpen" -> "half-open" [] OTHER -> "isolated"

C10_Chain ==
    /\ \A i \in 1..Len(events) : events[i].from # events[i].to
    /\ \A i \in 1..(Len(events) - 1) : events[i + 1].from = events[i].to
    /\ Len(events) > 0 => events[1].from = "closed"

C10_Step ==
    /\ bstate' # bstate =>
          events' = Append(events, [name |-> resCfg.name,
                                    from |-> C10_Label(bstate),
                                    to |-> C10_Label(bstate'),
                                    timestamp |-> now])
    /\ bstate' = bstate => events' = events
    /\ C10_Chain'

\* C10: every step that changes the breaker's state hands onStateChange
\* exactly one event {name, from, to, timestamp} with from the label of the
\* state before and to the label of the state after; a step that leaves the
\* state alone emits nothing; so from # to in every event, each event's from
\* is the to of the one before, and the first event's from is 'closed'.
C10_StateChangeEvents == [][C10_Step]_vars

C10_Witness ==
    /\ Len(events) >= 3
    /\ events[2].to = "half-open"

(***************************************************************************)
(*                      PROPERTIES OF THE PAYMENT GATE                     *)
(***************************************************************************)

GateFinal == {"Rejected", "Faulted", "Responded"}

\* the four conditions under which the gate admits a request
Cleared(r) ==
    /\ req[r].hadHeader
    /\ req[r].paymentPayload # NullPayload
    /\ req[r].verification.valid
    /\ gateCfg.settleBeforeResponse => req[r].settlement.success

\* C1: next() is invoked only for a request that carried a header which
\* decoded, whose verification was valid and (with settleBeforeResponse)
\* whose settlement succeeded; a request that ends without these ends with
\* a 402 response and its handler never ran.
C1_AdmittedOnlyWhenCleared ==
    \A r \in Reqs :
        /\ req[r].nextCalls > 0 => Cleared(r)
        /\ (req[r].pc \in GateFinal /\ ~Cleared(r)) =>
              (req[r].response.status = 402 /\ req[r].nextCalls = 0)

C1_Witness ==
    /\ gateCfg.settleBeforeResponse
    /\ req["r1"].pc = "Responded" /\ req["r1"].nextCalls = 1
    /\ req["r2"].pc = "Rejected" /\ req["r2"].facVerifyCalls = 1
    /\ ~req["r2"].verification.valid

\* C2: with settlement enabled, a settlement that returns success=false with
\* error e after a valid verification ends the request with the 402
\* challenge whose error is "settlement_failed: " followed by e, and next()
\* is not invoked.
C2_SettlementFailureRejects ==
    \A r \in Reqs :
        (req[r].settlement.error # Unset /\ ~req[r].settlement.success) =>
            /\ gateCfg.settleBeforeResponse
            /\ req[r].verification.valid
            /\ req[r].pc = "Rejected"
            /\ req[r].response =
                 [status |-> 402,
                  body |-> [requirements |-> buildPaymentRequirements(ReqUrl(r)),
                            error |-> "settlement_failed: "
                                        \o Str(req[r].settlement.error)]]
            /\ req[r].nextCalls = 0

C2_Witness ==
    \E r \in Reqs :
        /\ req[r].verification.valid
        /\ req[r].settlement.error = "insufficient_funds"
        /\ req[r].response.body.error = "settlement_failed: insufficient_funds"

\* C3: with settlement enabled, settlePayment is invoked only after
\* verifyPayment returned valid, and next() is invoked only once
\* settlePayment has returned success: the handler never runs while the
\* settlement is pending or was never attempted.
C3_SettleBetweenVerifyAndHandler ==
    \A r \in Reqs :
        /\ req[r].settlePaymentCalls > 0 =>
              (req[r].verification.kind = "result" /\ req[r].verification.valid)
        /\ req[r].pc = "Settling" => req[r].nextCalls = 0
        /\ (gateCfg.settleBeforeResponse /\ req[r].nextCalls > 0) =>
              /\ req[r].settledAtNext = "success"
              /\ req[r].settlePaymentCalls = 1

C3_Witness ==
    \E r \in Reqs :
        /\ gateCfg.settleBeforeResponse
        /\ req[r].pc = "Admitted"
        /\ req[r].settledAtNext = "success"

\* ---- strings ----
StartsWith(s, p) == Len(s) >= Len(p) /\ SubSeq(s, 1, Len(p)) = p

Contains(s, p) ==
    \E i \in 1..(Len(s) - Len(p) + 1) : SubSeq(s, i, i + Len(p) - 1) = p

\* verifyPayment was called for request r
VerifyRan(r) == req[r].verifyPaymentCalls > 0

\* the credential of r was inside its window when verifyPayment ran
WindowHeldAtVerify(r) ==
    /\ req[r].paymentPayload.validAfter <= req[r].verifiedAt
    /\ req[r].verifiedAt < req[r].paymentPayload.validBefore

\* authorization.to differs from payTo, compared case-insensitively
WrongRecipient(r) ==
    toLowerCase(req[r].paymentPayload.to) # toLowerCase(PayTo)

\* authorization.value is below the required minimum
BelowMinimum(r) == req[r].paymentPayload.value < PriceCents * UnitsPerCent

\* C11 as stated: the reason is "invalid_recipient", for every credential.
C11_Original ==
    \A r \in Reqs :
        (VerifyRan(r) /\ WrongRecipient(r)) =>
            /\ ~req[r].verification.valid
            /\ req[r].verification.invalidReason = "invalid_recipient"
            /\ req[r].facVerifyCalls = 0

\* C11 (amended): for every credential whose authorization.to differs from
\* payTo compared case-insensitively, verifyPayment returns valid=false and
\* never invokes the facilitator's verify; when the credential is inside its
\* time window at that moment the invalidReason is
\* "invalid_recipient: payment to wrong address".
C11_WrongRecipientRejected ==
    \A r \in Reqs :
        (VerifyRan(r) /\ WrongRecipient(r)) =>
            /\ req[r].verification.kind = "result"
            /\ ~req[r].verification.valid
            /\ req[r].facVerifyCalls = 0
            /\ WindowHeldAtVerify(r) =>
                  /\ req[r].verification.invalidReason =
                        "invalid_recipient: payment to wrong address"
                  /\ StartsWith(req[r].verification.invalidReason, "invalid_recipient")

C11_Witness ==
    \E r \in Reqs :
        /\ VerifyRan(r) /\ req[r].paymentPayload.to = "0xbbbb"
        /\ req[r].paymentPayload.value = PriceCents * UnitsPerCent
        /\ req[r].verification.invalidReason = "invalid_recipient: payment to wrong address"
        /\ req[r].facVerifyCalls = 0

\* C12 as stated: for every credential addressed to payTo with a value below
\* the minimum.
C12_Original ==
    \A r \in Reqs :
        (VerifyRan(r) /\ ~WrongRecipient(r) /\ BelowMinimum(r)) =>
            /\ ~req[r].verification.valid
            /\ Contains(req[r].verification.invalidReason, "insufficient_amount")
            /\ Contains(req[r].verification.invalidReason,
                        ToString(PriceCents * UnitsPerCent))
            /\ Contains(req[r].verification.invalidReason,
                        ToString(req[r].paymentPayload.value))
            /\ req[r].facVerifyCalls = 0

\* C12 (amended): for every credential addressed to payTo whose value is
\* below the required minimum, verifyPayment returns valid=false and never
\* invokes the facilitator's verify; when the credential is inside its time
\* window at that moment the invalidReason contains "insufficient_amount",
\* the required amount and the received amount.
C12_InsufficientAmountRejected ==
    \A r \in Reqs :
        (VerifyRan(r) /\ ~WrongRecipient(r) /\ BelowMinimum(r)) =>
            /\ req[r].verification.kind = "result"
            /\ ~req[r].verification.valid
            /\ req[r].facVerifyCalls = 0
            /\ WindowHeldAtVerify(r) =>
                  /\ Contains(req[r].verification.invalidReason, "insufficient_amount")
                  /\ Contains(req[r].verification.invalidReason,
                              "required " \o ToString(PriceCents * UnitsPerCent))
                  /\ Contains(req[r].verification.invalidReason,
                              "got " \o ToString(req[r].paymentPayload.value))

C12_Witness ==
    \E r \in Reqs :
        /\ VerifyRan(r) /\ req[r].paymentPayload.to = "0xAAAA"
        /\ req[r].paymentPayload.value = PriceCents * UnitsPerCent - 1
        /\ req[r].verification.invalidReason =
              "insufficient_amount: required 50000, got 49999"
        /\ req[r].facVerifyCalls = 0

\* C13 as stated: the checks are recipient, amount, facilitator, in that
\* order; wrong recipient together with an insufficient value is rejected as
\* invalid_recipient.
C13_Original ==
    \A r \in Reqs :
        VerifyRan(r) =>
            /\ (WrongRecipient(r) /\ BelowMinimum(r)) =>
                  StartsWith(req[r].verification.invalidReason, "invalid_recipient")
            /\ req[r].facVerifyCalls > 0 => (~WrongRecipient(r) /\ ~BelowMinimum(r))

\* C13 (amended): verifyPayment runs its checks in the fixed order time
\* window (schema re-check), recipient, amount, facilitator, and stops at the
\* first failure: inside its window, a credential with a wrong recipient and
\* an insufficient value is rejected as invalid_recipient, not
\* insufficient_amount, and the facilitator is consulted (once) only after
\* all local checks have passed.
C13_FixedOrderOfChecks ==
    \A r \in Reqs :
        VerifyRan(r) =>
            /\ ~WindowHeldAtVerify(r) =>
                  /\ StartsWith(req[r].verification.invalidReason, "invalid_payload")
                  /\ req[r].facVerifyCalls = 0
            /\ (WindowHeldAtVerify(r) /\ WrongRecipient(r)) =>
                  /\ StartsWith(req[r].verification.invalidReason, "invalid_recipient")
                  /\ req[r].facVerifyCalls = 0
            /\ (WindowHeldAtVerify(r) /\ ~WrongRecipient(r) /\ BelowMinimum(r)) =>
                  /\ StartsWith(req[r].verification.invalidReason, "insufficient_amount")
                  /\ req[r].facVerifyCalls = 0
            /\ (WindowHeldAtVerify(r) /\ ~WrongRecipient(r) /\ ~BelowMinimum(r)) =>
                  req[r].facVerifyCalls = 1

C13_Witness ==
    \E r \in Reqs :
        /\ VerifyRan(r) /\ WindowHeldAtVerify(r)
        /\ WrongRecipient(r) /\ BelowMinimum(r)
        /\ StartsWith(req[r].verification.invalidReason, "invalid_recipient")
        /\ req[r].pc = "Rejected"

\* C14: when the facilitator's verify throws or rejects, verifyPayment
\* resolves with valid=false and the reason "verification failed: internal
\* error", and the gate answers 402 with the challenge carrying that reason;
\* neither settlement nor the handler runs.
C14_FacilitatorThrowIsRejection ==
    \A r \in Reqs :
        req[r].facVerifyThrew =>
            /\ req[r].verification =
                 [kind |-> "result", valid |-> FALSE, payer |-> Undefined,
                  amount |-> Undefined,
                  invalidReason |-> "verification failed: internal error"]
            /\ req[r].pc = "Rejected"
            /\ req[r].response =
                 [status |-> 402,
                  body |-> [requirements |-> buildPaymentRequirements(ReqUrl(r)),
                            error |-> "verification failed: internal error"]]
            /\ req[r].settlePaymentCalls = 0
            /\ req[r].nextCalls = 0

C14_Witness ==
    \E r \in Reqs :
        /\ req[r].facVerifyThrew /\ req[r].facVerifyCalls = 1
        /\ req[r].response.status = 402
        /\ req[r].response.body.error = "verification failed: internal error"

DecodeFailed(r) ==
    \/ req[r].headerKind \in {"empty", "garbage"}
    \/ req[r].headerKind = "credential" /\ ~req[r].headerInWindow

\* C16 as stated: the reason is "invalid_payload".
C16_Original ==
    \A r \in Reqs :
        DecodeFailed(r) =>
            /\ req[r].pc = "Rejected"
            /\ req[r].response =
                 [status |-> 402,
                  body |-> [requirements |-> buildPaymentRequirements(ReqUrl(r)),
                            error |-> "invalid_payload"]]
            /\ req[r].verifyPaymentCalls = 0

\* C16 (amended): when the credential header is present but decoding fails,
\* the request is rejected with the 402 challenge of a missing credential
\* augmented with the reason "invalid_payment_header" (a header with an
\* empty value is answered as a missing one, without a reason), and
\* verifyPayment is never invoked.
C16_UndecodableHeaderRejected ==
    \A r \in Reqs :
        DecodeFailed(r) =>
            /\ req[r].pc = "Rejected"
            /\ req[r].response =
                 [status |-> 402,
                  body |-> [requirements |-> buildPaymentRequirements(ReqUrl(r)),
                            error |-> IF req[r].headerKind = "empty" THEN Unset
                                      ELSE "invalid_payment_header"]]
            /\ req[r].verifyPaymentCalls = 0 /\ req[r].facVerifyCalls = 0
            /\ req[r].nextCalls = 0

C16_Witness ==
    /\ req["r1"].headerKind = "garbage"
    /\ req["r1"].response.body.error = "invalid_payment_header"
    /\ req["r2"].headerKind = "credential" /\ ~req["r2"].headerInWindow
    /\ req["r2"].response.body.error = "invalid_payment_header"

\* C17: every request the gate does not admit ends in a 402 response with
\* the challenge and (but for a missing credential) a reason, whatever
\* failed: credential, local check, facilitator, or a configured hook.
C17_Original ==
    \A r \in Reqs :
        (req[r].pc \in GateFinal /\ req[r].nextCalls = 0) =>
            /\ req[r].response.status = 402
            /\ req[r].response.body.requirements = buildPaymentRequirements(ReqUrl(r))
            /\ req[r].headerKind \notin {"none", "empty"} =>
                  req[r].response.body.error # Unset

\* C18: when next() is invoked the context holds the payer and the amount
\* of the verification result and, when settlement ran, the settlement's
\* transaction hash, none of them unset or undefined.
C18_Original ==
    \A r \in Reqs :
        req[r].nextCalls > 0 =>
            /\ req[r].ctxAtNext.x402Payer = req[r].verification.payer
            /\ req[r].ctxAtNext.x402Amount = req[r].verification.amount
            /\ req[r].ctxAtNext.x402Payer \notin {Unset, Undefined}
            /\ req[r].ctxAtNext.x402Amount \notin {Unset, Undefined}
            /\ req[r].settlePaymentCalls > 0 =>
                  /\ req[r].ctxAtNext.x402TxHash = req[r].settlement.txHash
                  /\ req[r].ctxAtNext.x402TxHash \notin {Unset, Undefined}

(***************************************************************************)
(*                   PROPERTIES OF THE INFERENCE CLIENT                    *)
(***************************************************************************)

\* the last response to caller c was a success without a usable proof header
ProoflessSuccess(c) ==
    /\ call[c].response.kind = "response" /\ call[c].response.ok
    /\ call[c].response.proof \in {NoHeaderValue, ""}

\* C19: generateImpactReport resolves only on a successful response that
\* carried the proof header, and the report's proof is that header's value;
\* a successful response without the header makes the attempt fail with
\* EigenAIError('Missing verification proof'), also when its body is valid,
\* and no report comes of it.
C19_NoReportWithoutProof ==
    \A c \in Callers :
        /\ call[c].outcome = "resolved" =>
              /\ call[c].response.kind = "response" /\ call[c].response.ok
              /\ call[c].response.proof \notin {NoHeaderValue, ""}
              /\ call[c].report.proof.eigenaiProof = call[c].response.proof
        /\ call[c].report # NoReport => call[c].outcome = "resolved"
        /\ ProoflessSuccess(c) =>
              /\ call[c].outcome # "resolved"
              /\ call[c].pc \in {"backoff", "rejected", "done", "waitTest", "woken"}
                   \/ (call[c].pc \in {"inFlight", "probe"} /\ call[c].invoked > 1)
              /\ call[c].fnThrown = EigenAIError("Missing verification proof", 0, "")
              /\ call[c].report = NoReport

C19_Witness ==
    \E c, d \in Callers :
        /\ call[c].pc = "done" /\ call[c].outcome = "resolved"
        /\ call[c].report.proof.eigenaiProof = "proof-2"
        /\ call[c].fnThrown = EigenAIError("Missing verification proof", 0, "")
        /\ call[d].pc = "done" /\ call[d].outcome = "rejected"
        /\ ProoflessSuccess(d) /\ call[d].response.body = "valid"
        /\ call[d].invoked = EigenMaxRetries + 1

\* C20: when every one of the maxRetries+1 = 3 attempts of a call reached
\* the provider and was answered with a non-success status,
\* generateImpactReport rejects with the EigenAIError built from the last
\* answer (its status and error body), whatever failureThreshold is.
C20_Original ==
    \A c \in Callers :
        (call[c].pc = "done" /\ call[c].onlyNonOk /\ call[c].invoked >= 1) =>
            /\ call[c].invoked <= EigenMaxRetries + 1
            /\ call[c].outcome = "rejected"
            /\ call[c].invoked = EigenMaxRetries + 1 =>
                  /\ call[c].thrown.type = "Error"
                  /\ call[c].fnThrown.type = "EigenAIError"
                  /\ call[c].fnThrown.status = call[c].response.status
                  /\ call[c].fnThrown.error =
                        (IF call[c].response.errBody = "unparseable" THEN "{}"
                         ELSE call[c].response.errBody)

(***************************************************************************)
(*                 REQUEST SIGNING (src/lib/signing.ts)                    *)
(***************************************************************************)

\* ---- payloads: objects with string fields and one nested object ----

\* the payload has no key meta
NoObject == [isObject |-> FALSE, note |-> Unset, orgId |-> Unset]

Payloads == [txHash : {"0xabc", "0xdef"},
             orgId  : {Unset, "test-org", "hacked-org"},
             meta   : {NoObject} \cup [isObject : {TRUE}, note : {Unset, "n1", "n2"},
                                       orgId : {Unset, "inner-1", "inner-2"}]]

\* the object has the key k
Has(payload, k) == IF k = "meta" THEN payload.meta.isObject ELSE payload[k] # Unset

\* Object.keys(payload).sort(): the names of the payload's own keys, sorted
SortedKeys(payload) == SelectSeq(<<"meta", "orgId", "txHash">>, LAMBDA k : Has(payload, k))

RECURSIVE Join(_)
\* the members of a JSON object, separated by commas
Join(parts) ==
    IF parts = <<>> THEN ""
    ELSE IF Len(parts) = 1 THEN parts[1]
    ELSE parts[1] \o "," \o Join(Tail(parts))

Quote(str) == "\"" \o str \o "\""

\* JSON.stringify of a nested object under an array replacer: the replacer's
\* names are the only keys serialized, at this level as at the top level
stringifyNested(obj, allow) ==
    LET keys == SelectSeq(allow, LAMBDA k : k \in {"note", "orgId"} /\ obj[k] # Unset)
    IN  "{" \o Join([i \in 1..Len(keys) |->
                        Quote(keys[i]) \o ":" \o Quote(obj[keys[i]])]) \o "}"

\* JSON.stringify(payload, allow)
stringify(payload, allow) ==
    LET keys == SelectSeq(allow, LAMBDA k : Has(payload, k))
    IN  "{" \o Join([i \in 1..Len(keys) |->
                        Quote(keys[i]) \o ":" \o
                        (IF keys[i] = "meta"
                         THEN stringifyNested(payload.meta, allow)
                         ELSE Quote(payload[keys[i]]))]) \o "}"

\* length of a hex-encoded SHA-256 digest
DigestHexLength == 64

\* bytesToHex(hmac(sha256, secret, message)): a keyed digest, taken to be free
\* of collisions; its text stands for the 64 hex digits
hmacHex(secret, message) ==
    [length |-> DigestHexLength, text |-> "hmac[" \o secret \o "](" \o message \o ")"]

createRequestSignature(payload, secret) ==
    hmacHex(secret, stringify(payload, SortedKeys(payload)))

verifyRequestSignature(payload, signature, secret) ==
    LET expected == createRequestSignature(payload, secret)
    IN  IF expected.length # signature.length
        THEN [kind |-> "returns", value |-> FALSE]
        ELSE [kind |-> "returns", value |-> expected.text = signature.text]

\* the payloads that differ from payload in the value of exactly one field,
\* with the depth of that field (1: top level, 2: inside meta)
Changed(payload) ==
    { [payload |-> q, depth |-> 1] :
        q \in { r \in Payloads :
                  /\ \E k \in {"orgId", "txHash"} :
                        /\ payload[k] # Unset /\ r[k] # Unset /\ r[k] # payload[k]
                        /\ \A j \in {"orgId", "txHash", "meta"} \ {k} : r[j] = payload[j] } }
    \cup
    { [payload |-> q, depth |-> 2] :
        q \in { r \in Payloads :
                  /\ payload.meta.isObject /\ r.meta.isObject
                  /\ r.orgId = payload.orgId /\ r.txHash = payload.txHash
                  /\ \E k \in {"note", "orgId"} :
                        /\ payload.meta[k] # Unset /\ r.meta[k] # Unset
                        /\ r.meta[k] # payload.meta[k]
                        /\ \A j \in {"note", "orgId"} \ {k} :
                              r.meta[j] = payload.meta[j] } }

\* ---- actions ----

\* createRequestSignature(payload, secret) is called
Sign ==
    /\ signing.pc = "start"
    /\ signing' = [signing EXCEPT !.pc = "signed",
                      !.signature = createRequestSignature(signing.payload,
                                                           signing.secret)]
    /\ UNCHANGED <<gateVars, resVars, moreVars, health, codec, limiter, env, cachedConfig,
                   loaded>>

\* the value of one field of the payload is changed after signing
Tamper ==
    /\ signing.pc = "signed" /\ signing.depth = 0
    /\ \E ch \in Changed(signing.payload) :
         signing' = [signing EXCEPT !.current = ch.payload, !.depth = ch.depth]
    /\ UNCHANGED <<gateVars, resVars, moreVars, health, codec, limiter, env, cachedConfig,
                   loaded>>

\* verifyRequestSignature(current, candidate, secret) is called, with the
\* signature made before or with a foreign one
Verify ==
    /\ signing.pc = "signed"
    /\ \E cand \in { signing.signature,
                     [length |-> 11, text |-> "invalid-sig"],
                     [length |-> DigestHexLength, text |-> "00..00"] } :
         signing' = [signing EXCEPT !.pc = "verified", !.candidate = cand,
                        !.verdict = verifyRequestSignature(signing.current, cand,
                                                           signing.secret)]
    /\ UNCHANGED <<gateVars, resVars, moreVars, health, codec, limiter, env, cachedConfig,
                   loaded>>

SignInit ==
    /\ \E payload \in Payloads, secret \in {"test-hmac-secret", "other-secret"} :
         signing = [pc |-> "start", payload |-> payload, secret |-> secret,
                    signature |-> [length |-> 0, text |-> ""],
                    current |-> payload, depth |-> 0,
                    candidate |-> [length |-> 0, text |-> ""],
                    verdict |-> [kind |-> "none", value |-> FALSE]]
    /\ GateIdle /\ ResIdle
    /\ health = Off /\ codec = Off /\ limiter = Off
    /\ env = Off /\ cachedConfig = Off /\ loaded = Off
    /\ amount = Off /\ app = Off

SignNext == Sign \/ Tamper \/ Verify

SpecSign == SignInit /\ [][SignNext]_vars

(***************************************************************************)
(*      CREDENTIAL CODEC (decodePaymentHeader and PaymentPayloadSchema)    *)
(***************************************************************************)

\* ---- JavaScript values of the fields of a decoded document ----
Num(n)  == [t |-> "number", n |-> n, s |-> ""]
StrV(str) == [t |-> "string", n |-> 0, s |-> str]
Absent  == [t |-> "absent", n |-> 0, s |-> ""]

\* objects of the shape of PaymentPayload, with valid field values
WellFormed ==
    [x402Version : {Num(1)}, scheme : {StrV("exact")}, network : {StrV(Network)},
     signature : {StrV("0xsig130")}, from : {StrV("0xbbbb")},
     to : {StrV("0xaaaa"), StrV("0xAAAA")},
     value : {StrV("49999"), StrV("50000")},
     validAfter : {Num(0), Num(1)}, validBefore : {Num(1), Num(MaxSec + 1)},
     nonce : {StrV("0xnonce64")}, extra : {Absent}]

\* the same objects with one field changed
Deviations(o) ==
    { [o EXCEPT !.x402Version = Num(2)],
      [o EXCEPT !.x402Version = StrV("1")],
      [o EXCEPT !.scheme = StrV("upto")],
      [o EXCEPT !.network = StrV("mainnet")],
      [o EXCEPT !.signature = StrV("0x1234")],
      [o EXCEPT !.to = StrV("not-an-address")],
      [o EXCEPT !.value = StrV("5e4")],
      [o EXCEPT !.value = Num(50000)],
      [o EXCEPT !.validAfter = StrV(ToString(o.validAfter.n))],
      [o EXCEPT !.nonce = Absent],
      \* a key the schema does not know
      [o EXCEPT !.extra = StrV("x")] }

Objects == WellFormed \cup UNION { Deviations(o) : o \in WellFormed }

\* ---- JSON.stringify and JSON.parse ----

jsonStringify(o) ==
    \* the fields in the order they are written (the nesting payload.signature,
    \* payload.authorization.* is flattened)
    LET keys == SelectSeq(<<"x402Version", "scheme", "network", "signature", "from",
                            "to", "value", "validAfter", "validBefore", "nonce",
                            "extra">>,
                          LAMBDA k : o[k].t # "absent")
    IN  "{" \o Join([i \in 1..Len(keys) |->
                        Quote(keys[i]) \o ":" \o
                        (IF o[keys[i]].t = "number" THEN ToString(o[keys[i]].n)
                                                   ELSE Quote(o[keys[i]].s))]) \o "}"

\* texts that are JSON but no object, and a text that is no JSON
JsonNonObjects == {"null", "[1]", "42"}
NotJson        == "not json"

NotAnObject == [t |-> "nonObject"]

IsJson(text) == text \in JsonNonObjects \/ \E o \in Objects : jsonStringify(o) = text

\* JSON.parse of a text that IsJson: the value whose serialization it is
jsonParse(text) ==
    IF \E o \in Objects : jsonStringify(o) = text
    THEN CHOOSE o \in Objects : jsonStringify(o) = text
    ELSE NotAnObject

\* ---- base64 ----
base64(text) == "b64<" \o text \o ">"

\* Buffer.from(header, 'base64').toString('utf-8'): it does not throw; what is
\* no base64 decodes to bytes that are no JSON
fromBase64(header) ==
    LET texts == { jsonStringify(o) : o \in Objects } \cup JsonNonObjects \cup {NotJson}
    IN  IF \E text \in texts : base64(text) = header
        THEN CHOOSE text \in texts : base64(text) = header
        ELSE "\\uFFFD"

\* ---- PaymentPayloadSchema ----

\* Faulty variant: an authorization is still good in the second it expires
windowIssuesExpiryInclusive(doc, t) ==
    (IF doc.validBefore.n >= t THEN {} ELSE {"Authorization expired"})
    \cup (IF doc.validAfter.n <= t THEN {} ELSE {"Authorization not yet valid"})

\* AuthorizationSchema's two refinements against Math.floor(Date.now() / 1000):
\* the messages of those that fail
windowIssues(doc, t) ==
    (IF doc.validBefore.n > t THEN {} ELSE {"Authorization expired"})
    \cup (IF doc.validAfter.n <= t THEN {} ELSE {"Authorization not yet valid"})

\* PaymentPayloadSchema.parse finds no issue in a parsed document at time t
schemaAccepts(doc, t) ==
    /\ doc # NotAnObject
    /\ doc.x402Version = Num(1)
    /\ doc.scheme = StrV("exact")
    /\ doc.network \in {StrV("base-sepolia"), StrV("base")}
    /\ doc.signature = StrV("0xsig130")
    /\ doc.from.t = "string" /\ doc.from.s \in {"0xaaaa", "0xAAAA", "0xbbbb"}
    /\ doc.to.t = "string" /\ doc.to.s \in {"0xaaaa", "0xAAAA", "0xbbbb"}
    /\ doc.value.t = "string" /\ doc.value.s \in {"49999", "50000"}
    /\ doc.validAfter.t = "number" /\ doc.validBefore.t = "number"
    /\ doc.nonce = StrV("0xnonce64")
    /\ windowIssues(doc, t) = {}

\* z.object keeps the keys of the schema and drops every other key
schemaOutput(doc) == [doc EXCEPT !.extra = Absent]

NullJS == [t |-> "null"]

\* Faulty variant: the decoder has no try/catch around its three steps
decodePaymentHeaderWireUncaught(header, t) ==
    LET decoded == fromBase64(header)
    IN  IF ~IsJson(decoded)
        THEN [kind |-> "throws", value |-> NullJS]
        ELSE IF ~schemaAccepts(jsonParse(decoded), t)
        THEN [kind |-> "throws", value |-> NullJS]
        ELSE [kind |-> "returns", value |-> schemaOutput(jsonParse(decoded))]

\* decodePaymentHeader on the header's text: base64, JSON.parse, schema
decodePaymentHeaderWire(header, t) ==
    LET decoded == fromBase64(header)
    IN  IF ~IsJson(decoded)
        THEN [kind |-> "returns", value |-> NullJS]
        ELSE IF ~schemaAccepts(jsonParse(decoded), t)
        THEN [kind |-> "returns", value |-> NullJS]
        ELSE [kind |-> "returns", value |-> schemaOutput(jsonParse(decoded))]

\* ---- actions ----

\* a client encodes an object: base64 of its JSON text
Encode ==
    /\ codec.pc = "idle"
    /\ \E o \in Objects :
         codec' = [codec EXCEPT !.pc = "encoded", !.original = o,
                      !.header = base64(jsonStringify(o))]
    /\ UNCHANGED <<gateVars, resVars, moreVars, health, signing, limiter, env, cachedConfig,
                   loaded>>

\* a client sends a header value that is no encoding of an object
SendRaw ==
    /\ codec.pc = "idle"
    /\ \E h \in { "%%%", base64(NotJson), base64("null"), base64("[1]"), base64("42") } :
         codec' = [codec EXCEPT !.pc = "encoded", !.original = NotAnObject,
                      !.header = h]
    /\ UNCHANGED <<gateVars, resVars, moreVars, health, signing, limiter, env, cachedConfig,
                   loaded>>

\* decodePaymentHeader(header) runs at the current time
Decode ==
    /\ codec.pc = "encoded"
    /\ LET doc == IF IsJson(fromBase64(codec.header))
                  THEN jsonParse(fromBase64(codec.header)) ELSE NotAnObject
       IN  codec' = [codec EXCEPT
                       !.pc = "decoded", !.at = nowSec,
                       !.result = decodePaymentHeaderWire(codec.header, nowSec),
                       \* history: what the refinements reported inside the decoder
                       !.issues = IF /\ doc # NotAnObject
                                     /\ doc.validAfter.t = "number"
                                     /\ doc.validBefore.t = "number"
                                  THEN windowIssues(doc, nowSec) ELSE {}]
    /\ UNCHANGED <<gateVars, resVars, moreVars, health, signing, limiter, env, cachedConfig,
                   loaded>>

CodecTick ==
    /\ nowSec < MaxSec
    /\ nowSec' = nowSec + 1
    /\ UNCHANGED <<gateCfg, req, resVars, auxVars>>

CodecInit ==
    /\ codec = [pc |-> "idle", original |-> NotAnObject, header |-> "", at |-> 0,
                result |-> [kind |-> "none", value |-> NullJS], issues |-> {}]
    /\ GateIdle /\ ResIdle
    /\ health = Off /\ signing = Off /\ limiter = Off
    /\ env = Off /\ cachedConfig = Off /\ loaded = Off
    /\ amount = Off /\ app = Off

CodecNext == Encode \/ SendRaw \/ Decode \/ CodecTick

SpecCodec == CodecInit /\ [][CodecNext]_vars

(***************************************************************************)
(*                RATE LIMITER (src/middleware/ratelimit.ts)               *)
(***************************************************************************)

\* ---- bounds ----
MaxRateTime == 3      \* the clock runs from 0 to MaxRateTime
MaxRateReqs == 4      \* requests handled in one behaviour

\* what keyGenerator gives for the requests
Keys == {"key-a", "key-b"}

NoEntry == [count |-> 0, resetAt |-> -1]

\* MemoryRateLimitStore.increment at time t: the store afterwards
increment(store, key, windowMs, t) ==
    IF store[key] = NoEntry \/ store[key].resetAt < t
    THEN [store EXCEPT ![key] = [count |-> 1, resetAt |-> t + windowMs]]
    ELSE [store EXCEPT ![key].count = @ + 1]

\* the middleware after store.increment gave entry: the answer with its
\* headers, and whether next() was called (retryAfter -1: no such header)
respond(entry, max, t) ==
    IF entry.count > max
    THEN [status |-> 429, passed |-> FALSE,
          retryAfter |-> (entry.resetAt - t + 999) \div 1000,
          remaining |-> IF max - entry.count > 0 THEN max - entry.count ELSE 0]
    ELSE [status |-> 200, passed |-> TRUE, retryAfter |-> -1,
          remaining |-> IF max - entry.count > 0 THEN max - entry.count ELSE 0]

\* store.increment's return value: the entry object it has just put into the
\* map when it began a window (isLive), a fresh copy of the numbers otherwise
returned(store, key, windowMs, t) ==
    [isLive |-> (store[key] = NoEntry \/ store[key].resetAt < t),
     count  |-> increment(store, key, windowMs, t)[key].count,
     resetAt |-> increment(store, key, windowMs, t)[key].resetAt]

\* Faulty variant: the catch clause answers 429 instead of going on
failClosed(nextRejects) ==
    [status |-> 429, passed |-> FALSE, nextCalls |-> 0, retryAfter |-> -1, remaining |-> 0]

\* the catch clause of the middleware: the error is logged and next() is
\* awaited; what next() rejects with leaves the middleware
failOpen(nextRejects) ==
    [status |-> IF nextRejects THEN 500 ELSE 200, passed |-> TRUE, nextCalls |-> 1,
     retryAfter |-> -1, remaining |-> 0]

\* a request with key k enters the middleware: store.increment runs, and the
\* middleware awaits the promise it gave. The in-memory store never throws;
\* another store (cfg.faults) may throw or reject, and leaves no entry then;
\* it is exercised with the requests of one key.
RateLimitedRequest(k) ==
    /\ Len(limiter.log) < MaxRateReqs
    /\ limiter.cfg.faults => k = "key-a"
    /\ \E threw \in {FALSE, limiter.cfg.faults} :
         LET st  == increment(limiter.store, k, limiter.cfg.windowMs, limiter.t)
             ret == returned(limiter.store, k, limiter.cfg.windowMs, limiter.t)
         IN  limiter' = [limiter EXCEPT
                           !.store = IF threw THEN @ ELSE st,
                           !.log = Append(@, [key |-> k, time |-> limiter.t,
                                              pc |-> "awaiting",
                                              threw |-> threw,
                                              ret |-> IF threw
                                                      THEN [isLive |-> FALSE, count |-> 0,
                                                            resetAt |-> -1]
                                                      ELSE ret,
                                              status |-> 0, passed |-> FALSE,
                                              nextCalls |-> 0,
                                              retryAfter |-> -1, remaining |-> 0])]
    /\ UNCHANGED <<gateVars, resVars, moreVars, health, signing, codec, env, cachedConfig,
                   loaded>>

\* the await of request i is over. If increment threw, the catch clause
\* runs. Otherwise count and resetAt are read from what increment returned
\* (from the entry in the map, if that is what it returned), and the request
\* is answered 429 or handed to next(); when that next() rejects
\* (cfg.faults), the catch clause runs too and calls next() once more.
RateLimitDecides(i) ==
    /\ i \in 1..Len(limiter.log)
    /\ limiter.log[i].pc = "awaiting"
    /\ \E nextRejects \in {FALSE, limiter.cfg.faults} :
         LET q     == limiter.log[i]
             entry == IF q.ret.isLive THEN limiter.store[q.key]
                      ELSE [count |-> q.ret.count, resetAt |-> q.ret.resetAt]
             r     == respond(entry, limiter.cfg.max, limiter.t)
             o     == IF q.threw THEN failOpen(nextRejects)
                      ELSE IF r.passed /\ nextRejects
                      THEN [failOpen(TRUE) EXCEPT !.nextCalls = @ + 1,
                                                  !.remaining = r.remaining]
                      ELSE [status |-> r.status, passed |-> r.passed,
                            nextCalls |-> IF r.passed THEN 1 ELSE 0,
                            retryAfter |-> r.retryAfter, remaining |-> r.remaining]
         IN  limiter' = [limiter EXCEPT
                           !.log[i] = [q EXCEPT !.pc = "done", !.status = o.status,
                                          !.passed = o.passed,
                                          !.nextCalls = o.nextCalls,
                                          !.retryAfter = o.retryAfter,
                                          !.remaining = o.remaining]]
    /\ UNCHANGED <<gateVars, resVars, moreVars, health, signing, codec, env, cachedConfig,
                   loaded>>

\* the clock advances; the continuations of the awaits are microtasks and
\* have run by then
RateTick ==
    /\ limiter.t < MaxRateTime
    /\ \A i \in 1..Len(limiter.log) : limiter.log[i].pc = "done"
    /\ limiter' = [limiter EXCEPT !.t = @ + 1]
    /\ UNCHANGED <<gateVars, resVars, moreVars, health, signing, codec, env, cachedConfig,
                   loaded>>

RateInit ==
    /\ \E cfg \in [windowMs : {1, 2}, max : {1, 2}, faults : {FALSE}]
                 \cup [windowMs : {1}, max : {1}, faults : {TRUE}] :
         limiter = [cfg |-> cfg, store |-> [k \in Keys |-> NoEntry], t |-> 0,
                    log |-> <<>>]
    /\ GateIdle /\ ResIdle
    /\ health = Off /\ signing = Off /\ codec = Off
    /\ env = Off /\ cachedConfig = Off /\ loaded = Off
    /\ amount = Off /\ app = Off

RateNext ==
    \/ \E k \in Keys : RateLimitedRequest(k)
    \/ \E i \in 1..MaxRateReqs : RateLimitDecides(i)
    \/ RateTick

SpecRate == RateInit /\ [][RateNext]_vars

(***************************************************************************)
(*          CONFIGURATION LOADER (loadConfig, resetConfig, ConfigSchema)   *)
(***************************************************************************)

\* ---- process.env, as far as loadConfig reads it (Unset: not set) ----
ValidAddress == "0xaaaaaaaaaaaaaaaaaaaaaaaaaaaaaaaaaaaaaaaa"

EnvValues ==
    [PAY_TO_ADDRESS       |-> {Unset, ValidAddress, "not-an-address"},
     EIGENAI_API_KEY      |-> {Unset, "key", ""},
     BASE_SEPOLIA_RPC_URL |-> {Unset, "https://rpc.example.com", "http://insecure.com"},
     PRICE_CENTS          |-> {Unset, "", "5", "7", "0", "101", "abc", "7abc"}]

Envs == [PAY_TO_ADDRESS : EnvValues.PAY_TO_ADDRESS,
         EIGENAI_API_KEY : EnvValues.EIGENAI_API_KEY,
         BASE_SEPOLIA_RPC_URL : EnvValues.BASE_SEPOLIA_RPC_URL,
         PRICE_CENTS : EnvValues.PRICE_CENTS]

\* ---- ConfigSchema ----
DefaultPriceCents == 5
MinPriceCents     == 1
MaxPriceCents     == 100

\* parseInt(str, 10) of a non-empty string: the number its leading digits
\* spell, NaN if it has none
parseInt(str) ==
    CASE str = "5"   -> [isNaN |-> FALSE, n |-> 5]
      [] str = "7"   -> [isNaN |-> FALSE, n |-> 7]
      [] str = "7abc" -> [isNaN |-> FALSE, n |-> 7]
      [] str = "0"   -> [isNaN |-> FALSE, n |-> 0]
      [] str = "101" -> [isNaN |-> FALSE, n |-> 101]
      [] OTHER       -> [isNaN |-> TRUE,  n |-> 0]

\* the object loadConfig hands to safeParse (isUndefined: the value undefined)
priceInput(e) ==
    IF e.PRICE_CENTS = Unset \/ e.PRICE_CENTS = ""
    THEN [isUndefined |-> TRUE, isNaN |-> FALSE, n |-> 0]
    ELSE [isUndefined |-> FALSE, isNaN |-> parseInt(e.PRICE_CENTS).isNaN,
          n |-> parseInt(e.PRICE_CENTS).n]

\* the issues ConfigSchema.safeParse finds, as env var names
issues(e) ==
    (IF e.PAY_TO_ADDRESS # ValidAddress THEN {"PAY_TO_ADDRESS"} ELSE {})
    \cup (IF e.EIGENAI_API_KEY \in {Unset, ""} THEN {"EIGENAI_API_KEY"} ELSE {})
    \cup (IF e.BASE_SEPOLIA_RPC_URL = Unset
              \/ ~StartsWith(e.BASE_SEPOLIA_RPC_URL, "https://")
          THEN {"BASE_SEPOLIA_RPC_URL"} ELSE {})
    \cup (IF /\ ~priceInput(e).isUndefined
             /\ \/ priceInput(e).isNaN
                \/ priceInput(e).n < MinPriceCents
                \/ priceInput(e).n > MaxPriceCents
          THEN {"PRICE_CENTS"} ELSE {})

\* result.data of a successful safeParse, with the schema's defaults
parsedConfig(e) ==
    [payToAddress |-> e.PAY_TO_ADDRESS, eigenaiApiKey |-> e.EIGENAI_API_KEY,
     eigenaiBaseUrl |-> "https://api.eigenai.xyz/v1",
     baseSepoliaRpcUrl |-> e.BASE_SEPOLIA_RPC_URL,
     priceCents |-> IF priceInput(e).isUndefined THEN DefaultPriceCents
                    ELSE priceInput(e).n,
     nodeEnv |-> "development"]

NoConfig == [payToAddress |-> Unset, eigenaiApiKey |-> Unset,
             eigenaiBaseUrl |-> Unset, baseSepoliaRpcUrl |-> Unset,
             priceCents |-> 0, nodeEnv |-> Unset]

\* Faulty variant: the parsed input is cached before the result is looked at
loadConfigCachesFirst(cache, e) ==
    IF cache # NoConfig
    THEN [kind |-> "returns", value |-> cache, cache |-> cache, issues |-> {}]
    ELSE IF issues(e) # {}
    THEN [kind |-> "throws", value |-> NoConfig, cache |-> parsedConfig(e),
          issues |-> issues(e)]
    ELSE [kind |-> "returns", value |-> parsedConfig(e), cache |-> parsedConfig(e),
          issues |-> {}]

\* loadConfig with _config = cache and process.env = e: what it gives and
\* what _config is afterwards
loadConfig(cache, e) ==
    IF cache # NoConfig
    THEN [kind |-> "returns", value |-> cache, cache |-> cache, issues |-> {}]
    ELSE IF issues(e) # {}
    THEN [kind |-> "throws", value |-> NoConfig, cache |-> NoConfig,
          issues |-> issues(e)]
    ELSE [kind |-> "returns", value |-> parsedConfig(e), cache |-> parsedConfig(e),
          issues |-> {}]

\* ---- actions ----

\* the environment changes: one variable is set or deleted
SetEnv ==
    /\ \E v \in DOMAIN EnvValues : \E x \in EnvValues[v] :
         /\ x # env[v]
         /\ env' = [env EXCEPT ![v] = x]
    /\ UNCHANGED <<gateVars, resVars, moreVars, health, signing, codec, limiter,
                   cachedConfig, loaded>>

LoadConfig ==
    /\ LET out == loadConfig(cachedConfig, env)
       IN  /\ cachedConfig' = out.cache
           /\ loaded' = [pc |-> "loadConfig", calls |-> 1 - loaded.calls,
                         kind |-> out.kind, value |-> out.value,
                         issues |-> out.issues]
    /\ UNCHANGED <<gateVars, resVars, moreVars, health, signing, codec, limiter, env>>

ResetConfig ==
    /\ cachedConfig' = NoConfig
    /\ loaded' = [loaded EXCEPT !.pc = "resetConfig"]
    /\ UNCHANGED <<gateVars, resVars, moreVars, health, signing, codec, limiter, env>>

ConfigInit ==
    /\ env \in Envs
    /\ cachedConfig = NoConfig
    /\ loaded = [pc |-> "start", calls |-> 0, kind |-> "none", value |-> NoConfig,
                 issues |-> {}]
    /\ GateIdle /\ ResIdle
    /\ (health = Off) /\ (signing = Off) /\ (codec = Off) /\ (limiter = Off)
    /\ amount = Off /\ app = Off

ConfigNext == SetEnv \/ LoadConfig \/ ResetConfig

SpecConfig == ConfigInit /\ [][ConfigNext]_vars

(***************************************************************************)
(*               AMOUNT ARITHMETIC OF THE PAYMENT SERVICE                  *)
(***************************************************************************)
\* A string of decimal digits is the sequence of its digits; a BigInt is
\* the sequence of its digits without leading zeros, so that amounts of any
\* size are represented exactly.

\* Number.prototype.toString of a non-negative integer
RECURSIVE toString(_)
toString(n) == IF n < 10 THEN <<n>> ELSE Append(toString(n \div 10), n % 10)

\* BigInt(s) of a string matching /^\d+$/
RECURSIVE BigInt(_)
BigInt(s) == IF Len(s) > 1 /\ Head(s) = 0 THEN BigInt(Tail(s)) ELSE s

\* Faulty variant: the two digit strings are compared as strings.
RECURSIVE bigLessAsStrings(_, _)
bigLessAsStrings(a, b) ==
    IF b = <<>> THEN FALSE
    ELSE IF a = <<>> THEN TRUE
    ELSE IF Head(a) # Head(b) THEN Head(a) < Head(b)
    ELSE bigLessAsStrings(Tail(a), Tail(b))

\* a < b of two BigInts
RECURSIVE bigLess(_, _)
bigLess(a, b) ==
    IF Len(a) # Len(b) THEN Len(a) < Len(b)
    ELSE IF a = <<>> THEN FALSE
    ELSE IF Head(a) # Head(b) THEN Head(a) < Head(b)
    ELSE bigLess(Tail(a), Tail(b))

\* PaymentService.verifyPayment up to the call of the facilitator, with
\* requiredAmountUnits as the constructor computed it from priceCents
verifyPaymentLocally(cents, payload, t) ==
    LET required == toString(centsToUSDCUnits(cents))
    IN  IF ~InWindow(payload, t) THEN "invalid_payload"
        ELSE IF ~recipientMatches(payload) THEN "invalid_recipient"
        ELSE IF bigLess(BigInt(payload.value), BigInt(required))
        THEN "insufficient_amount"
        ELSE "facilitator"

VerifyAmount ==
    /\ amount.pc = "start"
    /\ amount' = [amount EXCEPT
          !.pc = "verified",
          !.requiredAmountUnits = toString(centsToUSDCUnits(amount.priceCents)),
          !.verdict = verifyPaymentLocally(amount.priceCents, amount.payload, amount.at)]
    /\ UNCHANGED <<gateVars, resVars, health, signing, codec, limiter, env,
                   cachedConfig, loaded, app>>

\* priceCents is an integer in 1..10000 (X402ConfigSchema); authorization.value
\* is a string of digits: around the requirement, with a leading zero, short
\* with a high first digit, and at and beyond 2^53 = 9007199254740992
AmountInit ==
    /\ \E cents \in {1, 5, 10000} :
          amount \in
            [pc : {"start"}, priceCents : {cents}, at : {1},
             payload :
               [to : {"0xAAAA", "0xbbbb"}, validAfter : {0}, validBefore : {1, 2},
                value :
                  { toString(centsToUSDCUnits(cents) - 1),
                    toString(centsToUSDCUnits(cents)),
                    toString(centsToUSDCUnits(cents) + 1),
                    <<0>> \o toString(centsToUSDCUnits(cents)),
                    <<0>>, <<9>>,
                    <<9, 0, 0, 7, 1, 9, 9, 2, 5, 4, 7, 4, 0, 9, 9, 2>>,
                    <<9, 0, 0, 7, 1, 9, 9, 2, 5, 4, 7, 4, 0, 9, 9, 3>>,
                    <<9, 0, 0, 7, 1, 9, 9, 2, 5, 4, 7, 4, 0, 9, 9, 3, 0, 0, 0, 0>> }],
             requiredAmountUnits : {<<>>}, verdict : {"none"}]
    /\ GateIdle /\ ResIdle
    /\ health = Off /\ signing = Off /\ codec = Off /\ limiter = Off
    /\ env = Off /\ cachedConfig = Off /\ loaded = Off /\ app = Off

SpecAmount == AmountInit /\ [][VerifyAmount]_vars

(***************************************************************************)
(*                        ASSEMBLED APPLICATION                            *)
(***************************************************************************)
\* createApp mounts, on /v1/verify and in this order: the rate limiter, the
\* payment gate (when a payment service is configured, with
\* settleBeforeResponse: true and no hooks), the validator of the JSON body
\* that the route carries, and the route's handler. The gate is the one
\* modelled above: its steps act on req[r], and the stages around it on
\* app.reqs[r].

\* a request to POST /v1/verify that has not arrived
NoAppRequest ==
    [stage |-> "none", bodyValid |-> FALSE, status |-> 0,
     validations |-> 0,      \* runs of the body validator
     inferenceCalls |-> 0,   \* calls of eigenai.generateImpactReport
     gateAtValidation |-> "none",  \* history: the gate's position when the validator ran
     gateAtInference |-> "none"]   \* history: the gate's position when inference was called

\* the request arrives with a body that the route's schema accepts or not;
\* the rate limiter answers 429 or calls next(), which enters the gate, or
\* the validator when no payment service is configured
AppReceive(r) ==
    /\ app.reqs[r].stage = "none"
    /\ \E bodyValid \in BOOLEAN, limited \in BOOLEAN :
         /\ app' = [app EXCEPT !.reqs[r] =
                      [@ EXCEPT !.bodyValid = bodyValid,
                                !.stage = IF limited THEN "done"
                                          ELSE IF app.payment THEN "gate"
                                          ELSE "validation",
                                !.status = IF limited THEN 429 ELSE 0]]
         /\ req' = [req EXCEPT ![r].pc = IF ~limited /\ app.payment
                                         THEN "AwaitingCredential" ELSE @]
    /\ UNCHANGED <<gateCfg, nowSec, resVars, health, signing, codec, limiter, env,
                   cachedConfig, loaded, amount>>

\* Faulty variant: the validator of the body is mounted in front of the gate
AppValidateBeforeGate(r) ==
    /\ \/ app.reqs[r].stage = "validation"
       \/ app.reqs[r].stage = "gate" /\ req[r].pc = "AwaitingCredential"
                                     /\ app.reqs[r].validations = 0
    /\ app' = [app EXCEPT !.reqs[r] =
                 [@ EXCEPT !.validations = @ + 1,
                           !.gateAtValidation = req[r].pc,
                           !.stage = IF ~app.reqs[r].bodyValid THEN "done"
                                     ELSE IF app.reqs[r].stage = "gate" THEN "gate"
                                     ELSE "handler",
                           !.status = IF app.reqs[r].bodyValid THEN 0 ELSE 400]]
    /\ req' = [req EXCEPT ![r].pc = IF ~app.reqs[r].bodyValid /\ @ = "AwaitingCredential"
                                    THEN "Idle" ELSE @]
    /\ UNCHANGED <<gateCfg, nowSec, resVars, health, signing, codec, limiter, env,
                   cachedConfig, loaded, amount>>

\* the validator of the route: it runs once the middleware before it has
\* called next(); a body the schema rejects is answered 400 by defaultHook
\* and the handler is not run
AppValidate(r) ==
    /\ \/ app.reqs[r].stage = "validation"
       \/ app.reqs[r].stage = "gate" /\ req[r].pc = "Admitted"
    /\ app' = [app EXCEPT !.reqs[r] =
                 [@ EXCEPT !.validations = @ + 1,
                           !.gateAtValidation = req[r].pc,
                           !.stage = IF app.reqs[r].bodyValid THEN "handler" ELSE "done",
                           !.status = IF app.reqs[r].bodyValid THEN 0 ELSE 400]]
    /\ UNCHANGED <<gateVars, resVars, health, signing, codec, limiter, env,
                   cachedConfig, loaded, amount>>

\* the handler of the route: without an inference service it answers 500;
\* otherwise it calls generateImpactReport and answers 200 with the report,
\* or 500 when the call rejects
AppHandle(r) ==
    /\ app.reqs[r].stage = "handler"
    /\ \E resolves \in BOOLEAN :
         app' = [app EXCEPT !.reqs[r] =
                   [@ EXCEPT !.stage = "done",
                             !.inferenceCalls = IF app.eigenai THEN @ + 1 ELSE @,
                             !.gateAtInference = IF app.eigenai THEN req[r].pc ELSE @,
                             !.status = IF app.eigenai /\ resolves THEN 200 ELSE 500]]
    /\ UNCHANGED <<gateVars, resVars, health, signing, codec, limiter, env,
                   cachedConfig, loaded, amount>>

AppInit ==
    /\ gateCfg = [settleBeforeResponse |-> TRUE, onPaymentVerified |-> FALSE,
                  onPaymentSettled |-> FALSE]
    /\ nowSec = 0
    /\ req = [r \in Reqs |-> [NewRequest EXCEPT !.pc = "Idle"]]
    /\ \E payment \in BOOLEAN, eigenai \in BOOLEAN :
         app = [payment |-> payment, eigenai |-> eigenai,
                reqs |-> [r \in Reqs |-> NoAppRequest]]
    /\ ResIdle
    /\ health = Off /\ signing = Off /\ codec = Off /\ limiter = Off
    /\ env = Off /\ cachedConfig = Off /\ loaded = Off /\ amount = Off

AppNext ==
    \/ \E r \in Reqs : AppReceive(r)
    \/ \E r \in Reqs : Arrive(r)
    \/ \E r \in Reqs : CallVerifyPayment(r)
    \/ \E r \in Reqs : FacilitatorVerifyReturns(r)
    \/ \E r \in Reqs : FacilitatorSettleReturns(r)
    \/ \E r \in Reqs : AppValidate(r)
    \/ \E r \in Reqs : AppHandle(r)

SpecApp == AppInit /\ [][AppNext]_vars

(***************************************************************************)
(*        FURTHER PROPERTIES OF THE RESILIENT CLIENT AND THE GATE          *)
(***************************************************************************)

\* C26: execute rejects with CircuitOpenError only when the wrapped function
\* was never invoked during the call; a call whose last attempt invoked the
\* function and failed rejects with that attempt's error.
C26_Original ==
    \A c \in Callers :
        (call[c].pc = "done" /\ call[c].outcome = "rejected") =>
            /\ call[c].thrown.type = "CircuitOpenError" => call[c].invoked = 0
            /\ call[c].err.type = "Error" => call[c].thrown = call[c].err

\* the wrapped function of caller c is invoked in this step
InvokedNow(c) ==
    call'[c].pc \in {"inFlight", "probe"} /\ call[c].pc \notin {"inFlight", "probe"}

\* an invocation of caller c's wrapped function fails in this step
AttemptFails(c) ==
    call[c].pc \in {"inFlight", "probe"} /\ call'[c].pc \in {"backoff", "rejected"}

C27_Counting ==
    \A c \in Callers : AttemptFails(c) => count' = count + 1

\* C27 as stated: a call made while the breaker is Open never invokes its
\* function, neither at the first attempt nor at a retry.
C27_Original ==
    [][C27_Counting /\ \A c \in Callers :
          (call'[c].startFresh /\ Active(c)') => call'[c].invoked = 0]_vars

\* C27 (amended): every failed attempt, retries included, increments the
\* breaker's consecutive-failure count; an attempt (first or retry) made
\* while the breaker is Open and resetTimeout has not elapsed does not
\* invoke the wrapped function, and a function is invoked only through the
\* Closed breaker or as the probe once resetTimeout has elapsed, which may
\* be a retry of a call that began while the breaker was Open.
C27_AttemptsAccountedSeparately ==
    [][/\ C27_Counting
       /\ \A c \in Callers :
            /\ (Entered(c) /\ WithinReset) =>
                  /\ fnCalls' = fnCalls
                  /\ call'[c].pc \in {"backoff", "rejected"}
                  /\ call'[c].fastRejects = (IF Active(c) THEN call[c].fastRejects ELSE 0) + 1
            /\ InvokedNow(c) =>
                  \/ bstate = "Closed" /\ call'[c].pc = "inFlight"
                  \/ ResetElapsed /\ call'[c].pc = "probe"]_vars

C27_Witness ==
    \E c \in Callers :
        /\ call[c].startFresh /\ call[c].fastRejects = 1 /\ call[c].attempts = 2
        /\ call[c].pc = "done" /\ call[c].invoked = 1 /\ call[c].probed
        /\ call[c].outcome = "rejected" /\ count >= 2

\* C28: within one request the facilitator's verify is invoked at most once
\* and its settle at most once, whatever they return or throw; verifyPayment
\* and settlePayment themselves run at most once.
C28_FacilitatorNeverRetried ==
    \A r \in Reqs :
        /\ req[r].facVerifyCalls <= 1 /\ req[r].facSettleCalls <= 1
        /\ req[r].verifyPaymentCalls <= 1 /\ req[r].settlePaymentCalls <= 1
        /\ req[r].facVerifyThrew =>
              (req[r].pc = "Rejected" /\ req[r].facVerifyCalls = 1)
        /\ req[r].facSettleThrew =>
              (req[r].pc = "Rejected" /\ req[r].facSettleCalls = 1)

C28_Witness ==
    /\ req["r1"].facVerifyThrew /\ req["r1"].facVerifyCalls = 1
    /\ req["r1"].pc = "Rejected"
    /\ req["r2"].facSettleThrew /\ req["r2"].facSettleCalls = 1
    /\ req["r2"].pc = "Rejected"

\* C29: within one request, facilitator.settle is called with the payload
\* and the payment requirements facilitator.verify was called with.
C29_SettleSameAsVerify ==
    \A r \in Reqs :
        req[r].facSettleCalls > 0 =>
            /\ req[r].facVerifyCalls > 0
            /\ req[r].facSettlePayload = req[r].facVerifyPayload
            /\ req[r].facSettlePayload = req[r].paymentPayload
            /\ req[r].facSettleReq = req[r].facVerifyReq

C29_Witness ==
    \E r \in Reqs :
        /\ req[r].facSettleCalls = 1 /\ req[r].facVerifyCalls = 1
        /\ req[r].facSettlePayload.to = "0xAAAA"
        /\ req[r].facSettleReq.payTo = "0xaaaa"

\* C30: the requirements handed to the facilitator for a request equal the
\* challenge the gate sends for that request: same payTo, network, amount
\* and the request's resource URL.
C30_Original ==
    \A r \in Reqs :
        /\ req[r].facVerifyCalls > 0 =>
              req[r].facVerifyReq = build402Response(ReqUrl(r), Undefined).requirements
        /\ req[r].facSettleCalls > 0 =>
              req[r].facSettleReq = build402Response(ReqUrl(r), Undefined).requirements

\* ---- C21 ----
\* the probe is in its settling step / in any of its steps
ProbeReturns == health.pc = "inFlight" /\ health'.pc = "done"
ProbeSteps   == health' # health

\* C21: healthCheck never raises: when its fetch gives a response it returns
\* {healthy: response.ok}, when its fetch fails in any way it returns
\* {healthy: false, error}; and no step of the probe changes the breaker's
\* state or its failure count (nor invokes anything through the client).
C21_HealthCheckNeverRaises ==
    [][/\ ProbeReturns =>
            /\ health'.result.kind = "returns"
            /\ health'.fetched.kind = "response" =>
                  /\ health'.result.healthy = health'.fetched.ok
                  /\ health'.result.error = Unset
            /\ health'.fetched.kind = "rejects" =>
                  /\ health'.result.healthy = FALSE
                  /\ health'.result.error # Unset
       /\ ProbeSteps =>
            UNCHANGED <<bstate, count, openedAt, previousState, events, fnCalls,
                        call>>]_vars

\* a probe whose fetch was rejected has returned while the breaker is open
\* with failures counted
C21_Witness ==
    /\ health.pc = "done" /\ health.fetched.kind = "rejects"
    /\ health.result.healthy = FALSE
    /\ bstate = "Open" /\ count > 0

\* ---- C22 ----
\* C22: a signature verifies against the payload and secret it was made from;
\* once the value of any field of the payload, at any depth, has been changed
\* after signing, it does not verify; a signature of the wrong length is
\* refused by a returned false, not a throw.
C22_Original ==
    signing.pc = "verified" =>
        /\ signing.verdict.kind = "returns"
        /\ (signing.candidate = signing.signature /\ signing.depth = 0)
              => signing.verdict.value = TRUE
        /\ (signing.candidate = signing.signature /\ signing.depth > 0)
              => signing.verdict.value = FALSE
        /\ signing.candidate.length # DigestHexLength
              => signing.verdict.value = FALSE

\* ---- C23 ----
\* the object is a credential: every field of the wire payload, with a valid
\* value, and nothing else
IsCredential(o) == o \in WellFormed
\* a credential that carries a key the payload does not have
IsCredentialWithExtra(o) ==
    o # NotAnObject /\ o.extra # Absent /\ [o EXCEPT !.extra = Absent] \in WellFormed
WithinWindowAt(o, t) == o.validAfter.n <= t /\ t < o.validBefore.n

RequestsOf(k) == SelectSeq([i \in 1..Len(limiter.log) |-> i],
                           LAMBDA i : limiter.log[i].key = k)

RECURSIVE WindowStart(_, _)
\* the time at which the window of the j-th request of a key began: a window
\* begins with the key's first request, and with the first request that comes
\* later than windowMs after the beginning of the window before
WindowStart(idx, j) ==
    IF j = 1 THEN limiter.log[idx[1]].time
    ELSE LET w == WindowStart(idx, j - 1)
         IN  IF limiter.log[idx[j]].time > w + limiter.cfg.windowMs
             THEN limiter.log[idx[j]].time ELSE w

\* the rank of the j-th request of a key among the requests of its window
RankInWindow(idx, j) ==
    Cardinality({ h \in 1..j : WindowStart(idx, h) = WindowStart(idx, j) })

\* C24: within one window, requests 1..max of a key are passed to the
\* downstream handler and every further request of that key is answered 429
\* with a Retry-After header and not passed on; the requests of another key
\* do not count.
C24_Original ==
    ~limiter.cfg.faults =>
    \A k \in Keys :
        LET idx == RequestsOf(k)
        IN  \A j \in 1..Len(idx) :
              LET r == limiter.log[idx[j]]
              IN  r.pc = "done" =>
                    IF RankInWindow(idx, j) <= limiter.cfg.max
                    THEN r.passed /\ r.status = 200 /\ r.retryAfter = -1
                    ELSE ~r.passed /\ r.status = 429 /\ r.retryAfter >= 0

\* ---- C25 ----
\* the step is a call of loadConfig
LoadStep == loaded'.calls # loaded.calls

\* a variable loadConfig requires is missing, or a variable has a value its
\* rule in ConfigSchema does not allow (PRICE_CENTS as parseInt reads it: "7abc"
\* is the price 7)
MissingOrInvalid(e) ==
    \/ e.PAY_TO_ADDRESS \in {Unset, "not-an-address"}
    \/ e.EIGENAI_API_KEY \in {Unset, ""}
    \/ e.BASE_SEPOLIA_RPC_URL \in {Unset, "http://insecure.com"}
    \/ e.PRICE_CENTS \in {"0", "101", "abc"}

\* C25: loadConfig validates before it caches: with a missing or invalid
\* value it throws and no configuration is cached; after a successful load
\* every later loadConfig returns that same configuration, whatever the
\* environment has become, until resetConfig is called.
C25_ValidatedThenCached ==
    [][/\ (LoadStep /\ cachedConfig = NoConfig /\ MissingOrInvalid(env)) =>
            /\ loaded'.kind = "throws"
            /\ cachedConfig' = NoConfig
       /\ (LoadStep /\ cachedConfig = NoConfig /\ ~MissingOrInvalid(env)) =>
            /\ loaded'.kind = "returns"
            /\ loaded'.value # NoConfig
            /\ loaded'.value.payToAddress = env.PAY_TO_ADDRESS
            /\ loaded'.value.priceCents \in MinPriceCents..MaxPriceCents
            /\ cachedConfig' = loaded'.value
       /\ (LoadStep /\ cachedConfig # NoConfig) =>
            /\ loaded'.kind = "returns"
            /\ loaded'.value = cachedConfig
            /\ cachedConfig' = cachedConfig
       /\ (cachedConfig # NoConfig /\ cachedConfig' # cachedConfig) =>
            loaded'.pc = "resetConfig" /\ cachedConfig' = NoConfig]_vars

\* a load was answered from the cache although the environment has become
\* invalid since the first load
C25_Witness ==
    /\ loaded.pc = "loadConfig" /\ loaded.kind = "returns"
    /\ cachedConfig # NoConfig /\ loaded.value = cachedConfig
    /\ MissingOrInvalid(env)
    /\ cachedConfig.payToAddress # env.PAY_TO_ADDRESS

(***************************************************************************)
(*                 PROPERTIES OF THE TIME WINDOW AND THE AMOUNT            *)
(***************************************************************************)

\* ---- C31 ----
\* C31: a structurally valid credential is accepted by the decoder exactly
\* when validAfter <= now < validBefore at decode time: validAfter = now is
\* accepted, validBefore = now is refused as expired, validAfter > now is
\* refused as not yet valid.
C31_AcceptedExactlyInsideWindow ==
    (codec.pc = "decoded" /\ IsCredential(codec.original)) =>
        LET va == codec.original.validAfter.n
            vb == codec.original.validBefore.n
        IN  /\ (codec.result.value # NullJS) <=> (va <= codec.at /\ codec.at < vb)
            /\ codec.result.value # NullJS => codec.result.value = codec.original
            /\ ("Authorization expired" \in codec.issues) <=> (vb <= codec.at)
            /\ ("Authorization not yet valid" \in codec.issues) <=> (va > codec.at)

\* a credential was refused in the very second of its validBefore
C31_Witness ==
    /\ codec.pc = "decoded" /\ IsCredential(codec.original)
    /\ codec.original.validBefore.n = codec.at
    /\ codec.original.validAfter.n <= codec.at
    /\ codec.result.value = NullJS
    /\ codec.issues = {"Authorization expired"}


\* the integer a string of at most nine digits denotes
RECURSIVE IntOf(_)
IntOf(s) == IF s = <<>> THEN 0 ELSE 10 * IntOf(SubSeq(s, 1, Len(s) - 1)) + s[Len(s)]

\* the position of the first digit of s that is not a leading zero
FirstSignificant(s) ==
    IF \A i \in 1..Len(s) : s[i] = 0 THEN Len(s)
    ELSE CHOOSE i \in 1..Len(s) : s[i] # 0 /\ \A j \in 1..(i - 1) : s[j] = 0

\* the credential's value, read as an integer of any size, is smaller than
\* priceCents * 10000: it has at most nine significant digits (the
\* requirement is at most 100000000) and these denote a smaller integer
ValueSmaller ==
    LET v == amount.payload.value
        d == SubSeq(v, FirstSignificant(v), Len(v))
    IN  Len(d) <= 9 /\ IntOf(d) < amount.priceCents * 10000

\* C32 as stated: a credential is rejected for insufficient amount exactly
\* when its value is smaller than the required amount.
C32_Original ==
    amount.pc = "verified" =>
        (amount.verdict = "insufficient_amount" <=> ValueSmaller)

\* C32 (amended): the required amount is exactly priceCents * 10000 token
\* units for every configured priceCents in 1..10000, and a credential that
\* is inside its time window as verifyPayment runs and is addressed to payTo
\* is rejected for insufficient amount exactly when its value, read as an
\* integer of any size, is smaller than that amount: a value equal to the
\* requirement passes, and values beyond 2^53 are compared exactly. No
\* other credential is rejected for insufficient amount.
C32_ExactAmountComparison ==
    amount.pc = "verified" =>
        /\ Len(amount.requiredAmountUnits) <= 9
        /\ IntOf(amount.requiredAmountUnits) = amount.priceCents * 10000
        /\ amount.requiredAmountUnits[1] # 0
        /\ (amount.payload.validBefore > amount.at /\ amount.payload.to = "0xAAAA") =>
              /\ amount.verdict = "insufficient_amount" <=> ValueSmaller
              /\ amount.payload.value = amount.requiredAmountUnits =>
                    amount.verdict = "facilitator"
              /\ Len(amount.payload.value) >= 16 => amount.verdict = "facilitator"
        /\ amount.verdict = "insufficient_amount" =>
              amount.payload.validBefore > amount.at /\ amount.payload.to = "0xAAAA"

\* a value of 2^53 + 1 is admitted to the facilitator at the highest price,
C32_Witness ==
    /\ amount.pc = "verified" /\ amount.priceCents = 10000
    /\ amount.payload.value = <<9, 0, 0, 7, 1, 9, 9, 2, 5, 4, 7, 4, 0, 9, 9, 3>>
    /\ amount.payload.to = "0xAAAA" /\ amount.payload.validBefore = 2
    /\ amount.verdict = "facilitator"
    /\ amount.requiredAmountUnits = <<1, 0, 0, 0, 0, 0, 0, 0, 0>>

\* and a value of one unit less than the requirement is rejected
C32_WitnessBelow ==
    /\ amount.pc = "verified" /\ amount.priceCents = 1
    /\ amount.payload.value = <<9, 9, 9, 9>>
    /\ amount.verdict = "insufficient_amount"


(***************************************************************************)
(*                 PROPERTIES OF CONCURRENT EXECUTION                      *)
(***************************************************************************)
\* the payer who signed the credentials of request r
OwnPayer(r) == IF r = "r1" THEN "0xbbbb" ELSE "0xcccc"

\* what request r was given: its credential as decoded, and the answers of
\* the facilitator to its own verify and settle calls
OwnAdmission(r) ==
    /\ req[r].verification.kind = "result" /\ req[r].verification.valid
    /\ gateCfg.settleBeforeResponse => req[r].settlement.success
    /\ ~req[r].hookThrew

\* a step of the gate on behalf of one request leaves the other as it was
C33_Step ==
    \A r \in Reqs : req'[r] # req[r] => \A q \in Reqs \ {r} : req'[q] = req[q]

\* what request r has is derived from what r itself was given
C33_Own(r) ==
    /\ req[r].paymentPayload # NullPayload => req[r].paymentPayload.from = OwnPayer(r)
    /\ req[r].verification.valid =>
          /\ req[r].verification.payer = OwnPayer(r)
          /\ req[r].verification.amount = ToString(req[r].paymentPayload.value)
          /\ req[r].facVerifyPayload = req[r].paymentPayload
    /\ req[r].facSettleCalls > 0 => req[r].facSettlePayload = req[r].paymentPayload
    /\ req[r].pc \in {"Admitted", "Responded"} <=>
          (req[r].pc \notin {"HookVerified", "HookSettled", "Faulted"} /\ OwnAdmission(r)
           /\ req[r].nextCalls = 1)
    /\ req[r].nextCalls > 0 =>
          /\ req[r].ctxAtNext.x402Payer = OwnPayer(r)
          /\ req[r].ctxAtNext.x402Amount = ToString(req[r].paymentPayload.value)
          /\ req[r].ctxAtNext.x402PaymentPayload = req[r].paymentPayload
          /\ req[r].ctxAtNext.x402TxHash \in {Unset, req[r].settlement.txHash}
    /\ req[r].response.status = 402 =>
          req[r].response.body.requirements.resource = ReqUrl(r)

\* C33: concurrent requests through the gate do not influence one another:
\* every step taken for one request leaves the other request's state alone,
\* and a request's outcome and the payer, amount and transaction hash its
\* handler observes are those of its own credential and of the facilitator's
\* answers to its own calls.
C33_RequestsIndependent ==
    [][C33_Step /\ \A r \in Reqs : C33_Own(r)']_vars

\* both requests are admitted, each with its own payer in its context
C33_Witness ==
    /\ \A r \in Reqs : req[r].pc \in {"Admitted", "Responded"}
    /\ req["r1"].ctxAtNext.x402Payer = "0xbbbb"
    /\ req["r2"].ctxAtNext.x402Payer = "0xcccc"
    /\ req["r1"].settlement.txHash # req["r2"].settlement.txHash


C34_Step ==
    /\ \A c \in Callers :
          AttemptFails(c) =>
             /\ count' = count + 1 /\ consec' = consec + 1
             /\ consec' >= resCfg.failureThreshold => bstate' = "Open"
             /\ bstate = "Open" => (events' = events /\ emitted' = emitted)
    /\ (bstate = "Closed" /\ bstate' = "Open") =>
          /\ emitted' = emitted + 1
          /\ events' = Append(events, [name |-> resCfg.name, from |-> "closed",
                                       to |-> "open", timestamp |-> now])

\* C34: when several execute calls share one client and fail while they
\* overlap, every failed invocation adds one to the consecutive-failure
\* count, the breaker is Open as soon as failureThreshold failures have
\* completed with no success between them, the opening is one Closed->Open
\* transition for which onStateChange fires once, and a failure that
\* completes when the breaker is already Open causes no further transition.
C34_AtomicTransitions == [][C34_Step]_vars

\* two overlapping calls have both failed once, and the second failure has
\* opened the breaker with a single event
C34_Witness ==
    /\ resCfg.failureThreshold = 2 /\ bstate = "Open" /\ count = 2 /\ consec = 2
    /\ \A c \in Callers : call[c].overlapped /\ call[c].invoked = 1
                            /\ call[c].lastFnErr = FnError(1)
                            /\ call[c].startState = "Closed" /\ call[c].startCount = 0
    /\ emitted = 1 /\ Len(events) = 1 /\ events[1].to = "open"


(***************************************************************************)
(*             PROPERTIES OF THE WINDOW AT VERIFICATION TIME               *)
(***************************************************************************)
\* the credential of request r was decoded inside its window and its
\* validBefore was reached by the time verifyPayment ran
ExpiredBeforeVerify(r) ==
    /\ VerifyRan(r) /\ req[r].headerInWindow
    /\ req[r].paymentPayload.validBefore <= req[r].verifiedAt

\* C35: verifyPayment evaluates the window again, at verification time: a
\* credential that decoded successfully but whose validBefore is reached
\* before verifyPayment runs is rejected with an invalid_payload reason and
\* the facilitator is not invoked; every admitted credential was inside its
\* window both when it was decoded and when it was verified.
C35_WindowRecheckedAtVerify ==
    \A r \in Reqs :
        /\ ExpiredBeforeVerify(r) =>
              /\ req[r].verification.kind = "result" /\ ~req[r].verification.valid
              /\ StartsWith(req[r].verification.invalidReason, "invalid_payload")
              /\ req[r].facVerifyCalls = 0 /\ req[r].facSettleCalls = 0
              /\ req[r].nextCalls = 0
              /\ req[r].response.status = 402
        /\ req[r].nextCalls > 0 =>
              /\ req[r].headerInWindow
              /\ req[r].paymentPayload.validAfter <= req[r].verifiedAt
              /\ req[r].verifiedAt < req[r].paymentPayload.validBefore

\* a credential valid until second 1 is decoded at second 0 and verified at
\* second 1
C35_Witness ==
    \E r \in Reqs :
        /\ ExpiredBeforeVerify(r) /\ req[r].verifiedAt = 1
        /\ req[r].paymentPayload.validBefore = 1 /\ req[r].paymentPayload.to = "0xaaaa"
        /\ req[r].paymentPayload.value = PriceCents * UnitsPerCent
        /\ req[r].verification.invalidReason = "invalid_payload: Authorization expired"
        /\ req[r].response.status = 402 /\ req[r].facVerifyCalls = 0


(***************************************************************************)
(*                 PROPERTIES OF THE BREAKER'S STATES                      *)
(***************************************************************************)
\* C36: whatever execute calls are made, however they end and however much
\* time passes, the breaker's state is Closed, Open or HalfOpen: nothing
\* moves it into Isolated, no event names 'isolated', and no call is
\* rejected because the breaker is isolated.
C36_NeverIsolated ==
    /\ bstate \in {"Closed", "Open", "HalfOpen"}
    /\ previousState \in {"Closed", "Open", "HalfOpen"}
    /\ \A i \in 1..Len(events) :
          events[i].from # "isolated" /\ events[i].to # "isolated"
    /\ \A c \in Callers :
          /\ call[c].err # IsolatedCircuitError
          /\ call[c].thrown # IsolatedCircuitError

\* the breaker has been through all three states, with calls rejected both
\* by the function and by the open breaker
C36_Witness ==
    /\ bstate = "Closed" /\ Len(events) >= 3
    /\ \E i \in 1..Len(events) : events[i].to = "half-open"
    /\ \E c \in Callers : call[c].outcome = "rejected" /\ call[c].fastRejects > 0
    /\ now >= ResetTicks


(***************************************************************************)
(*               PROPERTIES OF THE FAILING RATE-LIMIT STORE                *)
(***************************************************************************)
\* C37: the rate limiter fails open: a request whose store.increment threw
\* is handed to the downstream handler exactly once and is not answered 429;
\* the failure of the store neither blocks the request nor makes next() run
\* twice, and it leaves the store's entries as they were.
C37_FailsOpen ==
    \A i \in 1..Len(limiter.log) :
        (limiter.log[i].threw /\ limiter.log[i].pc = "done") =>
            /\ limiter.log[i].nextCalls = 1
            /\ limiter.log[i].passed
            /\ limiter.log[i].status # 429
            /\ limiter.log[i].retryAfter = -1

\* the store throws for a request of a key whose window is already full:
\* the request before it was answered 429, this one is passed on
C37_Witness ==
    \E i \in 2..Len(limiter.log) :
        /\ limiter.log[i].threw /\ limiter.log[i].pc = "done"
        /\ limiter.log[i].nextCalls = 1 /\ limiter.log[i].status = 200
        /\ limiter.log[i - 1].key = limiter.log[i].key
        /\ limiter.log[i - 1].pc = "done" /\ limiter.log[i - 1].status = 429
        /\ limiter.log[i - 1].time = limiter.log[i].time


(***************************************************************************)
(*               PROPERTIES OF THE ASSEMBLED APPLICATION                   *)
(***************************************************************************)
\* the gate has admitted request r: its credential was verified and settled
GateAdmitted(r) ==
    /\ req[r].verifyPaymentCalls = 1 /\ req[r].verification.valid
    /\ req[r].settlePaymentCalls = 1 /\ req[r].settlement.success
    /\ req[r].nextCalls = 1

\* C38: in the assembled application with a payment service configured the
\* gate runs before the validation of the body and before the inference
\* call: the validator and the inference service are reached only by
\* requests the gate has admitted (verified and settled), a request the gate
\* answers 402 is neither validated nor inferred upon, and a request with a
\* valid credential and an invalid body is verified and settled and then
\* answered 400 without an inference call.
C38_GateBeforeValidationAndInference ==
    app.payment =>
      \A r \in Reqs :
        /\ app.reqs[r].validations > 0 =>
              GateAdmitted(r) /\ app.reqs[r].gateAtValidation = "Admitted"
        /\ app.reqs[r].inferenceCalls > 0 =>
              /\ GateAdmitted(r) /\ app.reqs[r].gateAtInference = "Admitted"
              /\ app.reqs[r].validations = 1 /\ app.reqs[r].bodyValid
        /\ req[r].pc = "Rejected" =>
              /\ req[r].response.status = 402
              /\ app.reqs[r].validations = 0 /\ app.reqs[r].inferenceCalls = 0
        /\ (req[r].pc = "Admitted" /\ ~app.reqs[r].bodyValid
            /\ app.reqs[r].stage = "done") =>
              /\ GateAdmitted(r) /\ app.reqs[r].status = 400
              /\ app.reqs[r].inferenceCalls = 0
        /\ (app.reqs[r].stage = "done" /\ ~app.reqs[r].bodyValid
            /\ app.reqs[r].status # 429) =>
              app.reqs[r].status = 400 /\ GateAdmitted(r)

\* a request with a valid credential and an invalid body has been verified
\* and settled and is answered 400; no inference call was made for it
C38_Witness ==
    /\ app.payment /\ app.eigenai
    /\ \E r \in Reqs :
          /\ GateAdmitted(r) /\ req[r].settlement.txHash = "0xeeee"
          /\ ~app.reqs[r].bodyValid /\ app.reqs[r].status = 400
          /\ app.reqs[r].validations = 1 /\ app.reqs[r].inferenceCalls = 0

====
